---- MODULE Spec2Model ----
(***************************************************************************)
(* A model of the UFrame client (src/UFrame/__init__.py): the table of     *)
(* contents held by a UFrame object, the reference designator check, and   *)
(* the request-url builder with its time window logic.                     *)
(*                                                                         *)
(* Text is modelled as a sequence of character codes (ASCII), so that      *)
(* str.find, str.split, list.sort and the regular expression of            *)
(* validate_reference_designator are computed on characters.               *)
(* A datetime is [day, sec, aware, off]: the wall clock as days since      *)
(* 1970-01-01 and seconds of the day, and the utc offset in hours of an    *)
(* aware value.  A timestamp string is [day, sec, frac, tz, off]: its wall *)
(* clock fields, the number of fraction digits it is written with and its  *)
(* zone suffix ("Z", "offset", "naive"), or tz = "garbage" for text that   *)
(* dateutil cannot parse, or tz = "None" for the python value None.        *)
(***************************************************************************)
EXTENDS Integers, Sequences, FiniteSets, TLC

VARIABLES toc, instruments, parameters, streams, arrays, url,
          last_async_request_urls, stderr, last_call, src,
          _selected_deployment_events, _filtered_deployment_events,
          _filtered_parsed_deployment_events,
          base_url, _last_async_request_responses,
          _active_deployment_events

vars == <<toc, instruments, parameters, streams, arrays, url,
          last_async_request_urls, stderr, last_call, src,
          _selected_deployment_events, _filtered_deployment_events,
          _filtered_parsed_deployment_events,
          base_url, _last_async_request_responses,
          _active_deployment_events>>

\* what all_deployment_events, deployment_events and instrument_deployments
\* return
deployments == <<_selected_deployment_events, _filtered_deployment_events,
                 _filtered_parsed_deployment_events>>

\* the base url, what last_async_responses returns, and the events of the
\* last get_active_deployments
client == <<base_url, _last_async_request_responses,
            _active_deployment_events>>

catalog == <<toc, instruments, parameters, streams, arrays>>

HTTP_STATUS_OK == 200

(***************************************************************************)
(* Text                                                                    *)
(***************************************************************************)
HYPHEN == 45

\* \w of the re module without re.UNICODE: [a-zA-Z0-9_]
IsWord(c) == c \in (48..57) \cup (65..90) \cup {95} \cup (97..122)

AllWord(s) == \A k \in 1..Len(s) : IsWord(s[k])

\* s.find(t) >= 0
Contains(s, t) ==
    \E i \in 0..(Len(s) - Len(t)) : SubSeq(s, i + 1, i + Len(t)) = t

\* a < b for python 2 byte strings
StrLess(a, b) ==
    \E k \in 1..Len(b) :
        /\ \A j \in 1..(k - 1) : j <= Len(a) /\ a[j] = b[j]
        /\ (k > Len(a) \/ (k <= Len(a) /\ a[k] < b[k]))

RECURSIVE Insert(_, _)
Insert(sorted, x) ==
    IF sorted = <<>> THEN <<x>>
    ELSE IF StrLess(x, Head(sorted)) THEN <<x>> \o sorted
    ELSE <<Head(sorted)>> \o Insert(Tail(sorted), x)

\* list.sort() on a list of strings (stable; equal strings stay, both kept)
RECURSIVE SortStrings(_)
SortStrings(seq) ==
    IF seq = <<>> THEN <<>>
    ELSE Insert(SortStrings(SubSeq(seq, 1, Len(seq) - 1)), seq[Len(seq)])

RECURSIVE SetToSeq(_)
SetToSeq(S) ==
    IF S = {} THEN <<>>
    ELSE LET x == CHOOSE y \in S : TRUE IN <<x>> \o SetToSeq(S \ {x})

\* sorted list of the elements of a set of strings
SortedKeys(S) == SortStrings(SetToSeq(S))

Range(seq) == {seq[k] : k \in 1..Len(seq)}

\* s.split('-')
RECURSIVE Split(_)
Split(s) ==
    IF \A k \in 1..Len(s) : s[k] # HYPHEN THEN <<s>>
    ELSE LET h == CHOOSE k \in 1..Len(s) :
                      s[k] = HYPHEN /\ \A j \in 1..(k - 1) : s[j] # HYPHEN
         IN <<SubSeq(s, 1, h - 1)>> \o Split(SubSeq(s, h + 1, Len(s)))

\* the minimum repeat counts of \w{8,}\-\w{5,}\-\w{2,}\-\w{1,}
MinSubsite == 8
MinNode == 5
MinSensor == 2
MinInstrument == 1

\* re.compile(r'\w{8,}\-\w{5,}\-\w{2,}\-\w{1,}').search(s): a match exists
\* iff three hyphens h1 < h2 < h3 have at least 8 word characters right
\* before h1, only word characters (at least 5, at least 2) between them,
\* and at least 1 word character right after h3.
regex_search(s) ==
    \E h1 \in 1..Len(s) :
        /\ s[h1] = HYPHEN
        /\ h1 - MinSubsite >= 1
        /\ \A k \in (h1 - MinSubsite)..(h1 - 1) : IsWord(s[k])
        /\ \E h2 \in (h1 + 1 + MinNode)..Len(s) :
               /\ s[h2] = HYPHEN
               /\ \A k \in (h1 + 1)..(h2 - 1) : IsWord(s[k])
               /\ \E h3 \in (h2 + 1 + MinSensor)..Len(s) :
                      /\ s[h3] = HYPHEN
                      /\ \A k \in (h2 + 1)..(h3 - 1) : IsWord(s[k])
                      /\ h3 + MinInstrument <= Len(s)
                      /\ \A k \in (h3 + 1)..(h3 + MinInstrument) : IsWord(s[k])

validate_reference_designator(reference_designator) ==
    regex_search(reference_designator)

(***************************************************************************)
(* Calendar and datetime                                                   *)
(***************************************************************************)
IsLeap(y) == (y % 4 = 0 /\ y % 100 # 0) \/ y % 400 = 0

DaysInMonth(y, m) ==
    IF m = 2 THEN (IF IsLeap(y) THEN 29 ELSE 28)
    ELSE IF m \in {4, 6, 9, 11} THEN 30 ELSE 31

\* days since 1970-01-01 of the civil date y-m-d (proleptic Gregorian)
DaysFromCivil(y, m, d) ==
    LET yy  == IF m <= 2 THEN y - 1 ELSE y
        era == yy \div 400
        yoe == yy - era * 400
        mp  == IF m > 2 THEN m - 3 ELSE m + 9
        doy == (153 * mp + 2) \div 5 + d - 1
        doe == yoe * 365 + yoe \div 4 - yoe \div 100 + doy
    IN era * 146097 + doe - 719468

\* the civil date [y, m, d] of a day number
CivilFromDays(z) ==
    LET zz  == z + 719468
        era == zz \div 146097
        doe == zz - era * 146097
        yoe == (doe - doe \div 1460 + doe \div 36524 - doe \div 146096) \div 365
        doy == doe - (365 * yoe + yoe \div 4 - yoe \div 100)
        mp  == (5 * doy + 2) \div 153
        d   == doy - (153 * mp + 2) \div 5 + 1
        m   == IF mp < 10 THEN mp + 3 ELSE mp - 9
    IN [y |-> yoe + era * 400 + (IF m <= 2 THEN 1 ELSE 0), m |-> m, d |-> d]

\* the absolute time of a datetime as [day, sec] in utc
Instant(dt) ==
    LET s == dt.sec - dt.off * 3600
    IN [day |-> dt.day + (s \div 86400), sec |-> s % 86400]

\* datetime comparison raises TypeError between naive and aware values
Comparable(a, b) == a.aware = b.aware

DtLess(a, b) ==
    LET x == Instant(a)
        y == Instant(b)
    IN x.day < y.day \/ (x.day = y.day /\ x.sec < y.sec)

\* dateutil.parser.parse raises ValueError on text that is no date
Parses(ts) == ts.tz \in {"Z", "offset", "naive"}

\* dateutil.parser.parse(ts)
Parse(ts) ==
    [day |-> ts.day, sec |-> ts.sec,
     aware |-> ts.tz # "naive",
     off |-> IF ts.tz = "offset" THEN ts.off ELSE 0]

\* python 2 datetime.strftime raises ValueError for a year before 1900
StrftimeOk(dt) == CivilFromDays(dt.day).y >= 1900

\* dt.strftime('%Y-%m-%dT%H:%M:%S.%fZ'): the wall clock fields of dt, six
\* fraction digits, and a literal Z whatever the tzinfo of dt is
Strftime(dt) ==
    [day |-> dt.day, sec |-> dt.sec, frac |-> 6, tz |-> "Z", off |-> 0]

\* the months, days and seconds of relativedelta(**{unit : n})
DeltaMonths(unit, n) ==
    IF unit = "years" THEN 12 * n ELSE IF unit = "months" THEN n ELSE 0

DeltaDays(unit, n) ==
    IF unit = "weeks" THEN 7 * n ELSE IF unit = "days" THEN n ELSE 0

DeltaSeconds(unit, n) ==
    IF unit = "hours" THEN 3600 * n
    ELSE IF unit = "minutes" THEN 60 * n
    ELSE IF unit = "seconds" THEN n ELSE 0

\* the day number of day d of month m of year y, or of the last day of
\* that month when it has fewer than d days
ClippedDay(y, m, d) ==
    DaysFromCivil(y, m, IF d > DaysInMonth(y, m) THEN DaysInMonth(y, m) ELSE d)

\* the day number of the civil date c moved back by a number of months
MonthsBack(c, months) ==
    ClippedDay((c.y * 12 + (c.m - 1) - months) \div 12,
               ((c.y * 12 + (c.m - 1) - months) % 12) + 1, c.d)

\* dt at day number day and second s of that day (s may be negative)
Shifted(dt, day, s) ==
    [day |-> day + (s \div 86400), sec |-> s % 86400,
     aware |-> dt.aware, off |-> dt.off]

\* dt - relativedelta(**{unit : n}): years and months move the calendar
\* month and clip the day to the length of the month, the other units are a
\* timedelta; the tzinfo is kept
RelativeSub(dt, unit, n) ==
    Shifted(dt,
            MonthsBack(CivilFromDays(dt.day), DeltaMonths(unit, n)) - DeltaDays(unit, n),
            dt.sec - DeltaSeconds(unit, n))

_valid_relativedeltatypes ==
    {"years", "months", "weeks", "days", "hours", "minutes", "seconds"}

(***************************************************************************)
(* The table of contents endpoint: the responses a server may give         *)
(***************************************************************************)
RD_GI == <<71, 73, 48, 49, 83, 85, 77, 79, 45, 82, 73, 73, 48, 49, 45, 48, 50, 45, 70, 76, 79, 82, 84, 68, 48, 48, 48>>  \* "GI01SUMO-RII01-02-FLORTD000"
RD_CE == <<67, 69, 48, 49, 73, 83, 83, 77, 45, 82, 73, 68, 49, 54, 45, 48, 51, 45, 67, 84, 68, 66, 80, 67, 48, 48, 48>>  \* "CE01ISSM-RID16-03-CTDBPC000"
RD_SHORT == <<71, 73, 48, 49, 83, 85, 77, 79, 45, 82, 73, 73, 48, 49>>  \* "GI01SUMO-RII01"
FRAG_GI == <<71, 73, 48, 49, 83, 85, 77, 79>>  \* "GI01SUMO"
FRAG_NONE == <<88, 88, 57, 57>>  \* "XX99"
S_FLORT == <<102, 108, 111, 114, 116>>  \* "flort"
S_CTDBP == <<99, 116, 100, 98, 112>>  \* "ctdbp"
S_OPTAA == <<111, 112, 116, 97, 97>>  \* "optaa"
M_STREAMED == <<115, 116, 114, 101, 97, 109, 101, 100>>  \* "streamed"
M_RECOVERED == <<114, 101, 99, 111, 118, 101, 114, 101, 100>>  \* "recovered"
T_REC == <<114, 101, 99, 111, 118>>  \* "recov"
P_TEMP == <<116, 101, 109, 112>>  \* "temp"
P_PRES == <<112, 114, 101, 115>>  \* "pres"
P_CHLA == <<99, 104, 108, 97>>  \* "chla"

\* the python value None where a timestamp string is expected
None == [tz |-> "None"]

\* text that dateutil cannot parse
Garbage == [tz |-> "garbage"]

\* "y-m-dT00:00:00.000Z", the form of the catalog's beginTime and endTime
CatalogTime(y, m, d) ==
    [day |-> DaysFromCivil(y, m, d), sec |-> 0, frac |-> 3, tz |-> "Z", off |-> 0]

Stream(name, method, begin, end) ==
    [stream |-> name, method |-> method, beginTime |-> begin, endTime |-> end]

GI_Streams ==
    << Stream(S_FLORT, M_STREAMED, CatalogTime(2015, 1, 1), CatalogTime(2020, 1, 1)),
       Stream(S_OPTAA, M_RECOVERED, CatalogTime(2016, 1, 1), CatalogTime(2021, 3, 31)) >>

CE_Streams ==
    << Stream(S_CTDBP, M_RECOVERED, CatalogTime(2019, 6, 1), CatalogTime(2019, 12, 15)) >>

SHORT_Streams ==
    << Stream(S_CTDBP, M_STREAMED, CatalogTime(2018, 1, 1), CatalogTime(2019, 1, 1)),
       Stream(S_FLORT, M_STREAMED, Garbage, CatalogTime(2019, 1, 1)) >>

\* legacy table of contents: a list of instruments
TocList1 ==
    [id |-> "list1", type |-> "list", value |->
       << [reference_designator |-> RD_GI, streams |-> GI_Streams,
           instrument_parameters |-> << [particleKey |-> P_CHLA], [particleKey |-> P_TEMP] >>],
          [reference_designator |-> RD_CE, streams |-> CE_Streams,
           instrument_parameters |-> << [particleKey |-> P_TEMP], [particleKey |-> P_PRES] >>] >>]

TocList2 ==
    [id |-> "list2", type |-> "list", value |->
       << [reference_designator |-> RD_SHORT, streams |-> SHORT_Streams,
           instrument_parameters |-> << [particleKey |-> P_PRES] >>] >>]

\* a legacy record without its instrument_parameters key
TocListNoKey ==
    [id |-> "list_nokey", type |-> "list", value |->
       << [reference_designator |-> RD_CE, streams |-> CE_Streams] >>]

\* current table of contents: a dictionary with definitions
TocDict1 ==
    [id |-> "dict1", type |-> "dict", value |->
       [instruments |->
          << [reference_designator |-> RD_GI, streams |-> GI_Streams],
             [reference_designator |-> RD_CE, streams |-> CE_Streams] >>,
        parameter_definitions |->
          << [pdId |-> 1, particle_key |-> P_TEMP],
             [pdId |-> 2, particle_key |-> P_PRES],
             [pdId |-> 3, particle_key |-> P_CHLA] >>,
        parameters_by_stream |->
          [s \in {S_FLORT, S_OPTAA, S_CTDBP} |->
             IF s = S_FLORT THEN <<3>> ELSE IF s = S_OPTAA THEN <<1, 3>> ELSE <<1, 2>>]]]

\* a dictionary without its parameter_definitions key
TocDictNoKey ==
    [id |-> "dict_nokey", type |-> "dict", value |->
       [instruments |->
          << [reference_designator |-> RD_GI, streams |-> GI_Streams] >>,
        parameters_by_stream |-> [s \in {S_FLORT, S_OPTAA} |-> <<3>>]]]

\* a dictionary whose second instrument has a stream parameters_by_stream lacks
TocDictNoStream ==
    [id |-> "dict_nostream", type |-> "dict", value |->
       [instruments |->
          << [reference_designator |-> RD_GI, streams |-> GI_Streams],
             [reference_designator |-> RD_CE, streams |-> CE_Streams] >>,
        parameter_definitions |-> << [pdId |-> 3, particle_key |-> P_CHLA] >>,
        parameters_by_stream |-> [s \in {S_FLORT, S_OPTAA} |-> <<3>>]]]

\* a JSON document that is neither a list nor a dictionary
TocOther == [id |-> "other", type |-> "unicode", value |-> <<>>]

Payloads ==
    {TocList1, TocList2, TocListNoKey, TocDict1, TocDictNoKey, TocDictNoStream, TocOther}

\* what requests.get(self._url) gives: an exception, or a response with a
\* status code and a body that r.json() decodes or not
Responses ==
    {[id |-> "unreachable", error |-> TRUE, status_code |-> 0, json |-> FALSE, body |-> TocOther],
     [id |-> "503", error |-> FALSE, status_code |-> 503, json |-> FALSE, body |-> TocOther],
     [id |-> "notjson", error |-> FALSE, status_code |-> HTTP_STATUS_OK, json |-> FALSE, body |-> TocOther]}
    \cup {[id |-> p.id, error |-> FALSE, status_code |-> HTTP_STATUS_OK, json |-> TRUE, body |-> p] :
            p \in Payloads}

(***************************************************************************)
(* UFrame._fetch_toc                                                       *)
(***************************************************************************)
HasKey(r, k) == k \in DOMAIN r

AddField(r, k, v) == [f \in DOMAIN r \cup {k} |-> IF f = k THEN v ELSE r[f]]

RECURSIVE Flatten(_)
Flatten(seqs) == IF seqs = <<>> THEN <<>> ELSE Head(seqs) \o Flatten(Tail(seqs))

\* the first occurrence of every element, in order
RECURSIVE Unique(_)
Unique(seq) ==
    IF seq = <<>> THEN <<>>
    ELSE LET rest == Unique(SubSeq(seq, 1, Len(seq) - 1))
             x == seq[Len(seq)]
         IN IF x \in Range(rest) THEN rest ELSE Append(rest, x)

Perms(S) ==
    {f \in [1..Cardinality(S) -> S] :
        \A a, b \in 1..Cardinality(S) : a # b => f[a] # f[b]}

\* {i['reference_designator'] : i for i in records}
TocOf(records) ==
    [rd \in {records[k].reference_designator : k \in 1..Len(records)} |->
        LET last == CHOOSE k \in 1..Len(records) :
                        /\ records[k].reference_designator = rd
                        /\ \A j \in (k + 1)..Len(records) :
                               records[j].reference_designator # rd
        IN records[last]]

NoReferenceDesignator(records) ==
    \E k \in 1..Len(records) : ~HasKey(records[k], "reference_designator")

\* the sorted list of the keys of the mapping
InstrumentsOf(mapping) == SortedKeys(DOMAIN mapping)

\* sorted({t.split('-')[0] for t in self._toc.keys()})
ArraysOf(mapping) == SortedKeys({Split(t)[1] : t \in DOMAIN mapping})

\* the loops over a legacy list raise KeyError on a record without its
\* instrument_parameters or streams, or an entry without its name
ListKeyError(records) ==
    \E k \in 1..Len(records) :
        \/ ~HasKey(records[k], "instrument_parameters")
        \/ \E j \in 1..Len(records[k].instrument_parameters) :
               ~HasKey(records[k].instrument_parameters[j], "particleKey")
        \/ ~HasKey(records[k], "streams")
        \/ \E j \in 1..Len(records[k].streams) :
               ~HasKey(records[k].streams[j], "stream")

\* the unique particleKey values in the order met
ListParameters(records) ==
    Unique(Flatten([k \in 1..Len(records) |->
        [j \in 1..Len(records[k].instrument_parameters) |->
            records[k].instrument_parameters[j].particleKey]]))

\* the stream names in the order met: the branch for the empty list has no
\* continue, so the first name is appended twice; later names once
ListStreams(records) ==
    LET names == Flatten([k \in 1..Len(records) |->
                     [j \in 1..Len(records[k].streams) |->
                         records[k].streams[j].stream]])
    IN IF names = <<>> THEN <<>> ELSE <<names[1]>> \o Unique(names)

\* {p['pdId'] : p for p in parameter_definitions}
ParamDefs(d) ==
    LET defs == d.parameter_definitions
    IN [id \in {defs[k].pdId : k \in 1..Len(defs)} |->
           defs[CHOOSE k \in 1..Len(defs) :
                    /\ defs[k].pdId = id
                    /\ \A j \in (k + 1)..Len(defs) : defs[j].pdId # id]]

\* building param_defs and stream_defs raises KeyError
DictDefsKeyError(d) ==
    \/ ~HasKey(d, "parameter_definitions")
    \/ \E k \in 1..Len(d.parameter_definitions) :
           ~HasKey(d.parameter_definitions[k], "pdId")
    \/ ~HasKey(d, "parameters_by_stream")
    \/ \E s \in DOMAIN d.parameters_by_stream :
           \E j \in 1..Len(d.parameters_by_stream[s]) :
               d.parameters_by_stream[s][j] \notin DOMAIN ParamDefs(d)

\* p[u'stream'] = s writes into the one dictionary of a definition: after
\* the loop a definition carries the last stream, in the order the keys of
\* parameters_by_stream were visited, that lists it
TaggedDef(d, order, id) ==
    LET users == {k \in 1..Len(order) : id \in Range(d.parameters_by_stream[order[k]])}
    IN IF users = {} THEN ParamDefs(d)[id]
       ELSE AddField(ParamDefs(d)[id], "stream",
                     order[CHOOSE k \in users : \A j \in users : j <= k])

StreamDefs(d, order) ==
    [s \in DOMAIN d.parameters_by_stream |->
        [j \in 1..Len(d.parameters_by_stream[s]) |->
            TaggedDef(d, order, d.parameters_by_stream[s][j])]]

\* one pass of the loop over self._toc for instrument i: [rec, ok]; ok is
\* FALSE where the pass raises KeyError, and rec is what it wrote until then
AnnotateInstrument(rec, i, sdefs) ==
    LET rec0 == AddField(rec, "instrument_parameters", <<>>)
    IN IF ~HasKey(rec, "streams") THEN [rec |-> rec0, ok |-> FALSE]
       ELSE LET n == Len(rec.streams)
                bad == {k \in 1..n : \/ ~HasKey(rec.streams[k], "stream")
                                     \/ rec.streams[k].stream \notin DOMAIN sdefs}
                stop == IF bad = {} THEN n + 1
                        ELSE CHOOSE k \in bad : \A j \in bad : k <= j
                tagged == [k \in 1..n |->
                             IF k <= stop
                             THEN AddField(rec.streams[k], "reference_designator", i)
                             ELSE rec.streams[k]]
                params == Flatten([k \in 1..(stop - 1) |-> sdefs[rec.streams[k].stream]])
            IN [rec |-> [rec0 EXCEPT !.streams = tagged,
                                     !.instrument_parameters = params],
                ok |-> bad = {}]

\* the loop over self._toc.keys() in the order the keys are visited
AnnotateToc(mapping, order, sdefs) ==
    LET failing == {k \in 1..Len(order) :
                       ~AnnotateInstrument(mapping[order[k]], order[k], sdefs).ok}
        stop == IF failing = {} THEN Len(order)
                ELSE CHOOSE k \in failing : \A j \in failing : k <= j
    IN [toc |-> [i \in DOMAIN mapping |->
                    IF \E k \in 1..stop : order[k] = i
                    THEN AnnotateInstrument(mapping[i], i, sdefs).rec
                    ELSE mapping[i]],
        ok |-> failing = {}]

DictParametersKeyError(d) ==
    \E k \in 1..Len(d.parameter_definitions) :
        ~HasKey(d.parameter_definitions[k], "particle_key")

DictParameters(d) ==
    [k \in 1..Len(d.parameter_definitions) |-> d.parameter_definitions[k].particle_key]

\* the orders in which a python 2 dict may hand out the keys
PbsOrders(resp) ==
    IF resp.json /\ resp.body.type = "dict" /\ HasKey(resp.body.value, "parameters_by_stream")
    THEN Perms(DOMAIN resp.body.value.parameters_by_stream)
    ELSE {<<>>}

TocOrders(resp) ==
    IF /\ resp.json /\ resp.body.type = "dict" /\ HasKey(resp.body.value, "instruments")
       /\ ~NoReferenceDesignator(resp.body.value.instruments)
    THEN Perms(DOMAIN TocOf(resp.body.value.instruments))
    ELSE {<<>>}

\* a fetch that empties the table of contents before it returns or raises
UnchangedCleared(cat, outcome, diag) ==
    [cat EXCEPT !.toc = <<>>, !.instruments = <<>>,
                !.outcome = outcome, !.stderr = diag]

\* a return or raise that leaves the table of contents as it is
Unchanged(cat, outcome, diag) ==
    [cat EXCEPT !.outcome = outcome, !.stderr = diag]

\* an exception after self._toc and self._instruments were assigned
Partial(cat, id, mapping, outcome) ==
    [cat EXCEPT !.toc = mapping, !.instruments = InstrumentsOf(mapping),
                !.src = [cat.src EXCEPT !.toc = id, !.instruments = id],
                !.outcome = outcome, !.stderr = <<>>]

\* lines 946-957: sort and store the lists
Complete(cat, id, mapping, params, names) ==
    [toc |-> mapping, instruments |-> InstrumentsOf(mapping),
     parameters |-> SortStrings(params), streams |-> SortStrings(names),
     arrays |-> ArraysOf(mapping),
     src |-> [toc |-> id, instruments |-> id, parameters |-> id,
              streams |-> id, arrays |-> id],
     outcome |-> "ok", stderr |-> <<>>]

FetchList(cat, body) ==
    IF NoReferenceDesignator(body.value) THEN Unchanged(cat, "KeyError", <<>>)
    ELSE IF ListKeyError(body.value)
    THEN Partial(cat, body.id, TocOf(body.value), "KeyError")
    ELSE Complete(cat, body.id, TocOf(body.value),
                  ListParameters(body.value), ListStreams(body.value))

FetchDict(cat, body, pbsOrder, tocOrder) ==
    LET d == body.value
    IN IF ~HasKey(d, "instruments") \/ NoReferenceDesignator(d.instruments)
       THEN Unchanged(cat, "KeyError", <<>>)
       ELSE IF DictDefsKeyError(d)
       THEN Partial(cat, body.id, TocOf(d.instruments), "KeyError")
       ELSE LET a == AnnotateToc(TocOf(d.instruments), tocOrder, StreamDefs(d, pbsOrder))
            IN IF ~a.ok \/ DictParametersKeyError(d)
               THEN Partial(cat, body.id, a.toc, "KeyError")
               ELSE Complete(cat, body.id, a.toc, DictParameters(d),
                             SetToSeq(DOMAIN d.parameters_by_stream))

\* the body of _fetch_toc after self._url is set: cat is the state before,
\* the value the state after with the outcome and the diagnostics written
FetchToc(cat, resp, pbsOrder, tocOrder) ==
    IF resp.error THEN Unchanged(cat, "RequestException", <<"RequestException">>)
    ELSE IF resp.status_code # HTTP_STATUS_OK
    THEN \* r.message: a Response has no such attribute
         Unchanged(cat, "AttributeError", <<>>)
    ELSE IF ~resp.json THEN Unchanged(cat, "ValueError", <<"ValueError">>)
    ELSE IF resp.body.type = "list" THEN FetchList(cat, resp.body)
    ELSE IF resp.body.type = "dict" THEN FetchDict(cat, resp.body, pbsOrder, tocOrder)
    ELSE Unchanged(cat, "unknown", <<"Unknown TOC response">>)

Catalog ==
    [toc |-> toc, instruments |-> instruments, parameters |-> parameters,
     streams |-> streams, arrays |-> arrays, src |-> src,
     outcome |-> "none", stderr |-> <<>>]

\* "http://a": the base url the client was constructed with
BASE_URL == <<104, 116, 116, 112, 58, 47, 47, 97>>

\* "http://b": a second UFrame instance
BASE_B == <<104, 116, 116, 112, 58, 47, 47, 98>>

TocUrl == <<"sensor", "inv", "toc">>

InvUrl == <<"sensor", "inv">>

fetch_toc(resp) ==
    \E pbsOrder \in PbsOrders(resp) : \E tocOrder \in TocOrders(resp) :
        \E r \in {FetchToc(Catalog, resp, pbsOrder, tocOrder)} :
           /\ url' = TocUrl
           /\ toc' = r.toc
           /\ instruments' = r.instruments
           /\ parameters' = r.parameters
           /\ streams' = r.streams
           /\ arrays' = r.arrays
           /\ src' = r.src
           /\ stderr' = r.stderr
           /\ last_call' = [op |-> "_fetch_toc", response |-> resp.id,
                            outcome |-> r.outcome]
           /\ UNCHANGED <<last_async_request_urls, deployments, client>>

Fetch == \E resp \in Responses : fetch_toc(resp)

(***************************************************************************)
(* Searching the table of contents                                         *)
(***************************************************************************)
\* a search that keeps the identifiers that start with the target
search_instruments_prefix(target_string) ==
    IF DOMAIN toc = {} THEN <<>>
    ELSE SelectSeq(instruments,
                   LAMBDA r : /\ Len(target_string) <= Len(r)
                              /\ SubSeq(r, 1, Len(target_string)) = target_string)

\* [r for r in self._instruments if r.find(target_string) >= 0], and [] with
\* a diagnostic while the table of contents is empty
search_instruments(target_string) ==
    IF DOMAIN toc = {} THEN <<>>
    ELSE SelectSeq(instruments, LAMBDA r : Contains(r, target_string))

\* lines 434-437 and 441-444 are indented with a tab followed by spaces; the
\* handlers are read with the flush and the continue inside the except clause.
\* the streams of every instrument whose name contains reference_designator,
\* each tagged with the instrument it belongs to; a stream whose beginTime or
\* endTime does not parse is left out.  (The two EpochMs fields the method
\* also writes into the stream are read by nothing and are not modelled.)
Tagged(found) ==
    Flatten([k \in 1..Len(found) |->
                [j \in 1..Len(toc[found[k]].streams) |->
                    AddField(toc[found[k]].streams[j],
                             "reference_designator", found[k])]])

instrument_to_streams(reference_designator) ==
    SelectSeq(Tagged(search_instruments(reference_designator)),
              LAMBDA s : Parses(s.beginTime) /\ Parses(s.endTime))

\* self._toc after instrument_to_streams ran for every name in called
TaggedToc(called) ==
    [m \in DOMAIN toc |->
        IF \E i \in called : Contains(m, i)
        THEN [toc[m] EXCEPT !.streams =
                 [j \in 1..Len(toc[m].streams) |->
                     AddField(toc[m].streams[j], "reference_designator", m)]]
        ELSE toc[m]]

\* [p for p in self._parameters if p.find(target_string) >= 0]
search_parameters(target_string) ==
    IF DOMAIN toc = {} THEN <<>>
    ELSE SelectSeq(parameters, LAMBDA p : Contains(p, target_string))

\* [s for s in self._streams if s.find(target_stream) >= 0]
search_streams(target_stream) ==
    IF DOMAIN toc = {} THEN <<>>
    ELSE SelectSeq(streams, LAMBDA s : Contains(s, target_stream))

\* the matching entries of self._arrays, sorted again
search_arrays(target_array) ==
    IF DOMAIN toc = {} THEN <<>>
    ELSE SortStrings(SelectSeq(arrays, LAMBDA a : Contains(a, target_array)))

\* the streams of the table of contents whose name contains target_stream
MatchingStreams(target_stream) ==
    {s \in UNION {Range(toc[r].streams) : r \in DOMAIN toc} :
        Contains(s.stream, target_stream)}

\* the sorted reference designators written into the matching streams;
\* stream['reference_designator'] raises KeyError on a stream nothing has
\* written the key into yet
stream_to_instrument(target_stream) ==
    IF \E s \in MatchingStreams(target_stream) : ~HasKey(s, "reference_designator")
    THEN [result |-> <<>>, raised |-> "KeyError"]
    ELSE [result |-> SortedKeys({s.reference_designator :
                                    s \in MatchingStreams(target_stream)}),
          raised |-> "none"]

\* the diagnostic every lookup writes while self._toc is empty
EmptyTocDiagnostic ==
    IF DOMAIN toc = {}
    THEN <<"You must fetch the table of contents first">> ELSE <<>>

\* a lookup that reads the table of contents and changes nothing
Lookup(op, target, result, raised) ==
    /\ last_call' = [op |-> op, target |-> target, result |-> result,
                     raised |-> raised]
    /\ stderr' = EmptyTocDiagnostic
    /\ UNCHANGED <<toc, instruments, parameters, streams, arrays, url,
                   last_async_request_urls, src, deployments, client>>

SearchInstruments(t) ==
    Lookup("search_instruments", t, search_instruments(t), "none")

SearchParameters(t) ==
    Lookup("search_parameters", t, search_parameters(t), "none")

SearchStreams(t) == Lookup("search_streams", t, search_streams(t), "none")

SearchArrays(t) == Lookup("search_arrays", t, search_arrays(t), "none")

StreamToInstrument(t) ==
    Lookup("stream_to_instrument", t, stream_to_instrument(t).result,
           stream_to_instrument(t).raised)

\* instrument_to_streams writes the reference designator into the streams
\* of the instruments it finds
InstrumentToStreams(t) ==
    /\ last_call' = [op |-> "instrument_to_streams", target |-> t,
                     result |-> instrument_to_streams(t), raised |-> "none"]
    /\ stderr' = EmptyTocDiagnostic
    /\ toc' = TaggedToc({t})
    /\ UNCHANGED <<instruments, parameters, streams, arrays, url,
                   last_async_request_urls, src, deployments, client>>

(***************************************************************************)
(* UFrame.instrument_to_query                                              *)
(***************************************************************************)
Present(ts) == ts.tz # "None"

\* if time_delta_type and time_delta_value
RelativeMode(a) == a.time_delta_type # "" /\ a.time_delta_value # 0

\* the window with explicit bounds taking precedence over the relative delta
ResolveWindowExplicitFirst(s, a) ==
    LET stream_dt0 == Parse(s.beginTime)
        stream_dt1 == Parse(s.endTime)
        dt1 == IF Present(a.end_ts) THEN Parse(a.end_ts) ELSE stream_dt1
    IN [dt0 |-> IF RelativeMode(a)
                THEN RelativeSub(dt1, a.time_delta_type, a.time_delta_value)
                ELSE IF Present(a.begin_ts) THEN Parse(a.begin_ts) ELSE stream_dt0,
        dt1 |-> dt1]

\* the window with end_ts honoured only when begin_ts is given too
ResolveWindowCoupled(s, a) ==
    LET stream_dt0 == Parse(s.beginTime)
        stream_dt1 == Parse(s.endTime)
    IN IF RelativeMode(a)
       THEN [dt0 |-> RelativeSub(stream_dt1, a.time_delta_type, a.time_delta_value),
             dt1 |-> stream_dt1]
       ELSE [dt0 |-> IF Present(a.begin_ts) THEN Parse(a.begin_ts) ELSE stream_dt0,
             dt1 |-> IF Present(a.begin_ts) /\ Present(a.end_ts)
                     THEN Parse(a.end_ts) ELSE stream_dt1]

\* lines 589-601: the window before the time check
ResolveWindow(s, a) ==
    LET stream_dt0 == Parse(s.beginTime)
        stream_dt1 == Parse(s.endTime)
    IN IF RelativeMode(a)
       THEN [dt0 |-> RelativeSub(stream_dt1, a.time_delta_type, a.time_delta_value),
             dt1 |-> stream_dt1]
       ELSE [dt0 |-> IF Present(a.begin_ts) THEN Parse(a.begin_ts) ELSE stream_dt0,
             dt1 |-> IF Present(a.end_ts) THEN Parse(a.end_ts) ELSE stream_dt1]

\* lines 620-624: the end of the window held to the endTime of the stream
ClampEnd(s, w) ==
    IF DtLess(Parse(s.endTime), w.dt1)
    THEN [ts |-> s.endTime, diags |-> <<"End time exceeds stream endTime">>]
    ELSE [ts |-> Strftime(w.dt1), diags |-> <<>>]

\* lines 626-629: the start held to the beginTime of the stream
ClampBegin(s, w) ==
    IF DtLess(w.dt0, Parse(s.beginTime))
    THEN [ts |-> s.beginTime,
          diags |-> <<"Start time is earlier than stream beginTime">>]
    ELSE [ts |-> Strftime(w.dt0), diags |-> <<>>]

Checked(ts0, ts1, diags, step) ==
    [ts0 |-> ts0, ts1 |-> ts1, diags |-> diags, step |-> step]

\* lines 631-635: the two texts are parsed again and compared
RangeCheck(b, e) ==
    IF ~Comparable(Parse(b.ts), Parse(e.ts))
    THEN Checked(b.ts, e.ts, e.diags \o b.diags, "TypeError")
    ELSE IF ~DtLess(Parse(b.ts), Parse(e.ts))
    THEN Checked(b.ts, e.ts,
                 e.diags \o b.diags \o <<"Invalid time range specified">>, "range")
    ELSE Checked(b.ts, e.ts, e.diags \o b.diags, "url")

\* the end is held to the stream, the comparison of the start raises
BeginRaises(w, e) == Checked(Strftime(w.dt0), e.ts, e.diags, "TypeError")

\* lines 618-635: [ts0, ts1, diags, step]; step is "url" when the window
\* passes, "range" when it is refused, "TypeError" when a comparison raises
TimeCheck(s, w) ==
    IF ~Comparable(w.dt1, Parse(s.endTime))
    THEN Checked(Strftime(w.dt0), Strftime(w.dt1), <<>>, "TypeError")
    ELSE IF ~Comparable(w.dt0, Parse(s.beginTime))
    THEN BeginRaises(w, ClampEnd(s, w))
    ELSE RangeCheck(ClampBegin(s, w), ClampEnd(s, w))

\* without the time check the formatted window goes into the url as it is
NoTimeCheck(s, w) ==
    [ts0 |-> Strftime(w.dt0), ts1 |-> Strftime(w.dt1), diags |-> <<>>, step |-> "url"]

\* lines 638-659: the request url, as the values put into the format string
\* lines 638-659: the user and email parameters of the query string: user
\* is part of the format string, email is appended if it is truthy
QueryTags(a) ==
    <<[name |-> "user", value |-> a.user]>>
    \o (IF a.email \notin {"None", ""}
        THEN <<[name |-> "email", value |-> a.email]>> ELSE <<>>)

StreamUrl(instrument, s, ts0, ts1, a) ==
    LET r_tokens == Split(instrument)
    IN [url |-> InvUrl, r_tokens |-> SubSeq(r_tokens, 1, 4),
        method |-> s.method, stream |-> s.stream, beginDT |-> ts0, endDT |-> ts1,
        tags |-> QueryTags(a)]

NoTime == [tz |-> "None"]

Event(instrument, s, step, diags, w, ts0, ts1) ==
    [instrument |-> instrument, stream |-> s, step |-> step, diags |-> diags,
     window |-> w, ts0 |-> ts0, ts1 |-> ts1]

NoStream == [stream |-> <<>>]

NoWindow == [dt0 |-> NoTime, dt1 |-> NoTime]

\* lines 603-661: the window is formatted, checked and made a url
Formatted(instrument, s, w, c) ==
    Event(instrument, s, c.step, c.diags, w, c.ts0, c.ts1)

Windowed(instrument, s, a, w) ==
    IF ~StrftimeOk(w.dt1) \/ ~StrftimeOk(w.dt0)
    THEN Event(instrument, s, "strftime", <<"ValueError">>, w, NoTime, NoTime)
    ELSE Formatted(instrument, s, w,
                   IF a.time_check THEN TimeCheck(s, w) ELSE NoTimeCheck(s, w))

\* a pass that keeps a stream only if its method is the telemetry given
ProcessStreamExact(instrument, s, a) ==
    IF a.telemetry # <<>> /\ s.method # a.telemetry
    THEN Event(instrument, s, "telemetry", <<>>, NoWindow, NoTime, NoTime)
    ELSE Windowed(instrument, s, a, ResolveWindow(s, a))

\* one pass of the loop over instrument_streams (lines 566-661)
ProcessStream(instrument, s, a) ==
    IF a.telemetry # <<>> /\ ~Contains(s.method, a.telemetry)
    THEN Event(instrument, s, "telemetry", <<>>, NoWindow, NoTime, NoTime)
    ELSE IF ~Parses(s.beginTime)
    THEN Event(instrument, s, "beginTime", <<"Invalid beginTime">>, NoWindow, NoTime, NoTime)
    ELSE IF ~Parses(s.endTime)
    THEN Event(instrument, s, "endTime", <<"Invalid endTime">>, NoWindow, NoTime, NoTime)
    ELSE Windowed(instrument, s, a, ResolveWindow(s, a))

\* lines 555-556: the first stream of that name
SelectStream(all, stream) ==
    << all[CHOOSE k \in 1..Len(all) :
              all[k].stream = stream /\ \A j \in 1..(k - 1) : all[j].stream # stream] >>

\* lines 558-661
StreamLoop(instrument, instrument_streams, a) ==
    IF instrument_streams = <<>>
    THEN << Event(instrument, NoStream, "nostreams",
                  <<"No valid streams found">>, NoWindow, NoTime, NoTime) >>
    ELSE [k \in 1..Len(instrument_streams) |->
             ProcessStream(instrument, instrument_streams[k], a)]

\* lines 549-661
WithStreams(instrument, all, a) ==
    IF a.stream = <<>> THEN StreamLoop(instrument, all, a)
    ELSE IF \A k \in 1..Len(all) : all[k].stream # a.stream
    THEN << Event(instrument, NoStream, "stream",
                  <<"Invalid stream specified">>, NoWindow, NoTime, NoTime) >>
    ELSE StreamLoop(instrument, SelectStream(all, a.stream), a)

\* one pass of the loop over instruments (lines 535-661)
ProcessInstrument(instrument, a) ==
    IF ~validate_reference_designator(instrument)
    THEN << Event(instrument, NoStream, "refdes",
                  <<"Invalid format for reference designator">>, NoWindow, NoTime, NoTime) >>
    ELSE WithStreams(instrument, instrument_to_streams(instrument), a)

\* the passes made until the call returns or one of them raises
RECURSIVE UntilRaise(_)
UntilRaise(events) ==
    IF events = <<>> THEN <<>>
    ELSE IF Head(events).step = "TypeError" THEN <<Head(events)>>
    ELSE <<Head(events)>> \o UntilRaise(Tail(events))

Raises(events) == events # <<>> /\ events[Len(events)].step = "TypeError"

RECURSIVE Diagnostics(_)
Diagnostics(events) ==
    IF events = <<>> THEN <<>> ELSE Head(events).diags \o Diagnostics(Tail(events))

Made(events) == SelectSeq(events, LAMBDA e : e.step = "url")

UrlOf(e, a) == StreamUrl(e.instrument, e.stream, e.ts0, e.ts1, a)

UrlsOf(events, a) == [k \in 1..Len(Made(events)) |-> UrlOf(Made(events)[k], a)]

\* what a call leaves: [urls, stderr, raised, events, called, reached];
\* events are the passes of the two loops in order, called the instruments
\* instrument_to_streams was called for, reached whether line 508 was reached
Returned(events, a) ==
    [urls |-> UrlsOf(events, a),
     stderr |-> Diagnostics(events),
     raised |-> IF Raises(events) THEN "TypeError" ELSE "none",
     events |-> events,
     called |-> {e.instrument : e \in {x \in Range(events) : x.step # "refdes"}},
     reached |-> TRUE]

\* a return before the loop over the instruments
Early(diag, reached) ==
    [urls |-> <<>>, stderr |-> diag, raised |-> "none",
     events |-> <<>>, called |-> {}, reached |-> reached]

\* lines 535-663
Loop(found, a) ==
    Returned(UntilRaise(Flatten([k \in 1..Len(found) |->
                                    ProcessInstrument(found[k], a)])), a)

\* lines 504-663
Searched(found, a) ==
    IF found = <<>>
    THEN Early(IF DOMAIN toc = {}
               THEN <<"You must fetch the table of contents first">> ELSE <<>>, FALSE)
    ELSE IF RelativeMode(a) /\ a.time_delta_type \notin _valid_relativedeltatypes
    THEN Early(<<"Invalid dateutil.relativedelta type">>, TRUE)
    ELSE IF Present(a.begin_ts) /\ ~Parses(a.begin_ts)
    THEN Early(<<"Invalid begin_dt">>, TRUE)
    ELSE IF Present(a.end_ts) /\ ~Parses(a.end_ts)
    THEN Early(<<"Invalid end_dt">>, TRUE)
    ELSE Loop(found, a)

instrument_to_query(a) == Searched(search_instruments(a.ref_des), a)

InstrumentToQuery(a) ==
    \E r \in {instrument_to_query(a)} :
       /\ last_async_request_urls' = r.urls
       /\ stderr' = r.stderr
       /\ url' = IF r.reached THEN InvUrl ELSE url
       /\ toc' = TaggedToc(r.called)
       /\ last_call' = [op |-> "instrument_to_query", args |-> a,
                        raised |-> r.raised, events |-> r.events]
       /\ _last_async_request_responses' = <<>>
       /\ UNCHANGED <<instruments, parameters, streams, arrays, src,
                      deployments, base_url, _active_deployment_events>>

Init ==
    /\ toc = <<>>
    /\ instruments = <<>>
    /\ parameters = <<>>
    /\ streams = <<>>
    /\ arrays = <<>>
    /\ url = <<>>
    /\ last_async_request_urls = <<>>
    /\ stderr = <<>>
    /\ last_call = [op |-> "init"]
    /\ src = [toc |-> "none", instruments |-> "none", parameters |-> "none",
              streams |-> "none", arrays |-> "none"]
    /\ _selected_deployment_events = <<>>
    /\ _filtered_deployment_events = <<>>
    /\ _filtered_parsed_deployment_events = <<>>
    /\ base_url = BASE_URL
    /\ _last_async_request_responses = <<>>
    /\ _active_deployment_events = <<>>

\* the state after UFrame(base_url) was constructed against a server that
\* answered the table of contents request with resp
InitFetched(resp) ==
    \E pbsOrder \in PbsOrders(resp) : \E tocOrder \in TocOrders(resp) :
        LET empty == [toc |-> <<>>, instruments |-> <<>>, parameters |-> <<>>,
                      streams |-> <<>>, arrays |-> <<>>,
                      src |-> [toc |-> "none", instruments |-> "none",
                               parameters |-> "none", streams |-> "none",
                               arrays |-> "none"],
                      outcome |-> "none", stderr |-> <<>>]
            r == FetchToc(empty, resp, pbsOrder, tocOrder)
        IN /\ toc = r.toc
           /\ instruments = r.instruments
           /\ parameters = r.parameters
           /\ streams = r.streams
           /\ arrays = r.arrays
           /\ src = r.src
           /\ url = TocUrl
           /\ last_async_request_urls = <<>>
           /\ stderr = r.stderr
           /\ last_call = [op |-> "_fetch_toc", response |-> resp.id,
                           outcome |-> r.outcome]
           /\ _selected_deployment_events = <<>>
           /\ _filtered_deployment_events = <<>>
           /\ _filtered_parsed_deployment_events = <<>>
           /\ base_url = BASE_URL
           /\ _last_async_request_responses = <<>>
           /\ _active_deployment_events = <<>>

(***************************************************************************)
(* The calls made                                                          *)
(***************************************************************************)
\* "y-m-dT00:00:00Z"
UtcTime(y, m, d) ==
    [day |-> DaysFromCivil(y, m, d), sec |-> 0, frac |-> 0, tz |-> "Z", off |-> 0]

B_EARLY == UtcTime(2014, 6, 1)
B_MID == UtcTime(2019, 12, 20)
B_LATE == UtcTime(2021, 1, 1)
\* "2015-12-31T23:00:00-05:00"
B_OFFSET == [day |-> DaysFromCivil(2015, 12, 31), sec |-> 82800, frac |-> 0,
             tz |-> "offset", off |-> -5]
\* "2017-01-01T00:00:00"
B_NAIVE == [day |-> DaysFromCivil(2017, 1, 1), sec |-> 0, frac |-> 0,
            tz |-> "naive", off |-> 0]
E_MID == UtcTime(2019, 12, 1)
E_LATE == UtcTime(2022, 1, 1)

FRAG_01 == <<48, 49>>  \* "01"

MaxAmount == 2

\* line 483: user='_nouser'
DefaultUser == "_nouser"

Args(ref_des, stream, telemetry, type, value, begin_ts, end_ts, time_check) ==
    [ref_des |-> ref_des, stream |-> stream, telemetry |-> telemetry,
     time_delta_type |-> type, time_delta_value |-> value,
     begin_ts |-> begin_ts, end_ts |-> end_ts, time_check |-> time_check,
     user |-> DefaultUser, email |-> "None"]

\* a call with user and email given: email "None" is email=None
TagArgs ==
    {[Args(FRAG_GI, <<>>, <<>>, "", 0, None, None, TRUE)
         EXCEPT !.user = u, !.email = e] :
        u \in {DefaultUser, "alice"}, e \in {"None", "", "alice@example.org"}}

BeginInputs == {None, Garbage, B_EARLY, B_MID, B_LATE, B_OFFSET, B_NAIVE}

EndInputs == {None, Garbage, E_MID, E_LATE}

\* explicit bounds, no relative delta
ExplicitArgs ==
    {Args(FRAG_01, <<>>, <<>>, "", 0, b, e, c) :
        b \in BeginInputs, e \in EndInputs, c \in BOOLEAN}

Deltas ==
    {<<u, n>> : u \in _valid_relativedeltatypes, n \in (1..MaxAmount) \cup {30}}
    \cup {<<"days", 400>>, <<"years", 150>>, <<"fortnights", 1>>, <<"days", 0>>}

\* a relative delta, alone and with explicit bounds
DeltaArgs ==
    {Args(FRAG_01, <<>>, <<>>, d[1], d[2], w[1], w[2], c) :
        d \in Deltas, w \in {<<None, None>>, <<B_MID, E_LATE>>, <<Garbage, None>>},
        c \in BOOLEAN}

\* the choice of instruments, stream and telemetry
SelectArgs ==
    {Args(r, s, t, "", 0, None, None, TRUE) :
        r \in {FRAG_GI, FRAG_NONE, RD_CE}, s \in {<<>>, S_FLORT}, t \in {<<>>, T_REC}}

Query == \E a \in SelectArgs \cup TagArgs : InstrumentToQuery(a)

QueryExplicit == \E a \in ExplicitArgs : InstrumentToQuery(a)

QueryDelta == \E a \in DeltaArgs : InstrumentToQuery(a)

(***************************************************************************)
(* The table of contents across fetches                                    *)
(***************************************************************************)
\* the outcomes of a failed request: requests.get raised, the status was
\* not 200 (the handler then raises on r.message), the body was no JSON
FetchFailures == {"RequestException", "AttributeError", "ValueError"}

\* "gi01sumo"
FRAG_LOWER == <<103, 105, 48, 49, 115, 117, 109, 111>>

\* "t": in the names of streams and parameters
FRAG_T == <<116>>

SearchTargets ==
    {<<>>, FRAG_01, FRAG_GI, FRAG_NONE, FRAG_LOWER, RD_GI, RD_CE, RD_SHORT}

\* C1: a failed fetch of the table of contents (network failure, status
\* other than 200, body that is no JSON) leaves the mapping and the four
\* lists as they were, and search_instruments answers every target as before.
C1_FailedFetchKeepsCatalog ==
    [][(last_call'.op = "_fetch_toc" /\ last_call'.outcome \in FetchFailures)
          => /\ catalog' = catalog
             /\ \A t \in SearchTargets :
                    search_instruments(t)' = search_instruments(t)]_vars

\* a failed fetch with a populated table of contents
C1_Witness ==
    /\ last_call.op = "_fetch_toc"
    /\ last_call.outcome \in FetchFailures
    /\ search_instruments(FRAG_GI) # <<>>
    /\ streams # <<>>

\* C2: after any sequence of fetches the mapping and the lists come from one
\* payload: instruments is the sorted key list of the mapping, arrays the
\* sorted prefixes of its keys, and the streams and parameters lists were
\* stored by the fetch that stored the mapping.
C2_OnePayload ==
    /\ instruments = InstrumentsOf(toc)
    /\ arrays = ArraysOf(toc)
    /\ src.instruments = src.toc
    /\ src.streams = src.toc
    /\ src.parameters = src.toc
    /\ src.arrays = src.toc

(***************************************************************************)
(* The request urls of the last call                                       *)
(***************************************************************************)
Queried == last_call.op = "instrument_to_query"

\* the passes that made a url: the k-th made last_async_request_urls[k]
UrlEvents == SelectSeq(last_call.events, LAMBDA e : e.step = "url")

\* the passes that resolved a window
Resolved(events) == SelectSeq(events, LAMBDA e : e.window # NoWindow)

\* C3: with a relative delta and explicit bounds both given, the urls do not
\* depend on the bounds: the call with any other begin_ts and end_ts gives
\* the same list of urls.
C3_DeltaIgnoresBounds ==
    (/\ Queried
     /\ RelativeMode(last_call.args)
     /\ Present(last_call.args.begin_ts)
     /\ Present(last_call.args.end_ts))
       => \A b \in BeginInputs \ {None} : \A e \in EndInputs \ {None} :
             instrument_to_query([last_call.args EXCEPT !.begin_ts = b,
                                                          !.end_ts = e]).urls
                = last_async_request_urls

\* C4: with time_check every url has its window inside the bounds of its
\* stream: beginTime <= beginDT and endDT <= endTime.
C4_WindowInsideBounds ==
    (Queried /\ last_call.args.time_check)
       => \A k \in 1..Len(UrlEvents) :
             LET u == last_async_request_urls[k]
                 s == UrlEvents[k].stream
             IN /\ ~DtLess(Parse(u.beginDT), Parse(s.beginTime))
                /\ ~DtLess(Parse(s.endTime), Parse(u.endDT))

\* C5: every url has beginDT strictly before endDT, with or without
\* time_check.
C5_StartBeforeEnd ==
    Queried => \A k \in 1..Len(last_async_request_urls) :
                  DtLess(Parse(last_async_request_urls[k].beginDT),
                         Parse(last_async_request_urls[k].endDT))

\* the arguments are refused before the loop over the instruments
Refused(a) ==
    \/ RelativeMode(a) /\ a.time_delta_type \notin _valid_relativedeltatypes
    \/ Present(a.begin_ts) /\ ~Parses(a.begin_ts)
    \/ Present(a.end_ts) /\ ~Parses(a.end_ts)

\* the pairs of a call: every pass of the two loops that has a window, none
\* cut short
Batch(a) ==
    LET found == search_instruments(a.ref_des)
    IN IF Refused(a) THEN <<>>
       ELSE Resolved(Flatten([k \in 1..Len(found) |->
                                 ProcessInstrument(found[k], a)]))

Later(a, b) == IF DtLess(a, b) THEN b ELSE a

Earlier(a, b) == IF DtLess(a, b) THEN a ELSE b

\* the window of a pass has start >= end once it is held to the stream
ClampedInvalid(e, a) ==
    LET s0 == Parse(e.stream.beginTime)
        s1 == Parse(e.stream.endTime)
        start == IF a.time_check THEN Later(e.window.dt0, s0) ELSE e.window.dt0
        end   == IF a.time_check THEN Earlier(e.window.dt1, s1) ELSE e.window.dt1
    IN ~DtLess(start, end)

InvalidRanges ==
    {k \in 1..Len(stderr) : stderr[k] = "Invalid time range specified"}

\* C6: when exactly one (instrument, stream) pair of a call has start >= end
\* after clamping, the call does not raise, returns one url for each of the
\* other pairs in catalog order, and reports exactly one invalid time range.
C6_BatchIsolation ==
    Queried =>
       LET a == last_call.args
           batch == Batch(a)
           bad == {k \in 1..Len(batch) : ClampedInvalid(batch[k], a)}
           good == SelectSeq(batch, LAMBDA e : /\ ~ClampedInvalid(e, a)
                                                /\ StrftimeOk(e.window.dt0)
                                                /\ StrftimeOk(e.window.dt1))
       IN Cardinality(bad) = 1
            => /\ last_call.raised = "none"
               /\ Len(last_async_request_urls) = Len(good)
               /\ \A k \in 1..Len(good) :
                     /\ last_async_request_urls[k].r_tokens
                           = SubSeq(Split(good[k].instrument), 1, 4)
                     /\ last_async_request_urls[k].method = good[k].stream.method
                     /\ last_async_request_urls[k].stream = good[k].stream.stream
               /\ Cardinality(InvalidRanges) = 1

\* seconds of one unit of a timedelta
UnitSeconds(unit) ==
    CASE unit = "weeks"   -> 7 * 86400
      [] unit = "days"    -> 86400
      [] unit = "hours"   -> 3600
      [] unit = "minutes" -> 60
      [] unit = "seconds" -> 1

\* d0 is d1 moved back by n units: a fixed length of time for weeks, days,
\* hours, minutes and seconds; for years and months the same time of day, n
\* calendar months earlier, on the same day of the month or on the last day
\* of a shorter month
MovedBack(d0, d1, unit, n) ==
    IF unit \in {"years", "months"}
    THEN LET c0 == CivilFromDays(d0.day)
             c1 == CivilFromDays(d1.day)
             last == DaysInMonth(c0.y, c0.m)
         IN /\ (c1.y * 12 + c1.m) - (c0.y * 12 + c0.m)
                  = (IF unit = "years" THEN 12 * n ELSE n)
            /\ c0.d = (IF c1.d > last THEN last ELSE c1.d)
            /\ d0.sec = d1.sec
    ELSE (d1.day - d0.day) * 86400 + (d1.sec - d0.sec) = n * UnitSeconds(unit)

\* C7: with a relative delta of a valid unit, the window of every stream
\* ends at the endTime of the stream and starts amount units before it, for
\* each of the seven units; without time_check the url carries that window.
C7_RelativeWindow ==
    (Queried /\ RelativeMode(last_call.args))
       => LET a == last_call.args
              done == Resolved(last_call.events)
          IN /\ \A k \in 1..Len(done) :
                   /\ done[k].window.dt1 = Parse(done[k].stream.endTime)
                   /\ MovedBack(done[k].window.dt0, done[k].window.dt1,
                                a.time_delta_type, a.time_delta_value)
             /\ ~a.time_check
                  => \A k \in 1..Len(UrlEvents) :
                        LET u == last_async_request_urls[k]
                            end == Parse(UrlEvents[k].stream.endTime)
                        IN /\ u.endDT.day = end.day /\ u.endDT.sec = end.sec
                           /\ MovedBack(u.beginDT, u.endDT, a.time_delta_type,
                                        a.time_delta_value)

\* a stream ending 2020-01-01 asked for the last 30 days: 2019-12-02 to
\* 2020-01-01, whatever begin_ts and end_ts were given
C7_Witness ==
    /\ Queried
    /\ last_call.args.time_delta_type = "days"
    /\ last_call.args.time_delta_value = 30
    /\ last_call.args.begin_ts = B_MID
    /\ \E k \in 1..Len(last_async_request_urls) :
          /\ last_async_request_urls[k].stream = S_FLORT
          /\ last_async_request_urls[k].beginDT.day = DaysFromCivil(2019, 12, 2)
          /\ last_async_request_urls[k].endDT.day = DaysFromCivil(2020, 1, 1)

\* the bound a side of the window comes from
Chosen(given, own) == IF Present(given) THEN Parse(given) ELSE Parse(own)

\* C8: without a relative delta each side of the window is resolved on its
\* own: the start is begin_ts when given and the beginTime of the stream
\* otherwise, the end is end_ts when given and the endTime of the stream
\* otherwise; without time_check the url carries these two times.
C8_ExplicitSidesIndependent ==
    (Queried /\ ~RelativeMode(last_call.args))
       => LET a == last_call.args
              done == Resolved(last_call.events)
          IN /\ \A k \in 1..Len(done) :
                   /\ done[k].window.dt0 = Chosen(a.begin_ts, done[k].stream.beginTime)
                   /\ done[k].window.dt1 = Chosen(a.end_ts, done[k].stream.endTime)
             /\ ~a.time_check
                  => \A k \in 1..Len(UrlEvents) :
                        LET u == last_async_request_urls[k]
                            s == UrlEvents[k].stream
                            c0 == Chosen(a.begin_ts, s.beginTime)
                            c1 == Chosen(a.end_ts, s.endTime)
                        IN /\ u.beginDT.day = c0.day /\ u.beginDT.sec = c0.sec
                           /\ u.endDT.day = c1.day /\ u.endDT.sec = c1.sec

\* only end_ts given: the start is the beginTime of the stream, the end end_ts
C8_Witness ==
    /\ Queried
    /\ ~RelativeMode(last_call.args)
    /\ last_call.args.begin_ts = None
    /\ last_call.args.end_ts = E_MID
    /\ ~last_call.args.time_check
    /\ \E k \in 1..Len(last_async_request_urls) :
          /\ last_async_request_urls[k].stream = S_FLORT
          /\ last_async_request_urls[k].beginDT.day = DaysFromCivil(2015, 1, 1)
          /\ last_async_request_urls[k].endDT.day = DaysFromCivil(2019, 12, 1)

\* the call made again for the stream of a url with its beginDT and endDT
Again(u, e) ==
    instrument_to_query(Args(e.instrument, e.stream.stream, <<>>, "", 0,
                             u.beginDT, u.endDT, TRUE))

\* C9: with time_check, asking again for the stream of a url with
\* begin_ts = beginDT and end_ts = endDT of that url gives a url with the
\* same beginDT and the same endDT.
C9_ClampIdempotent ==
    (Queried /\ last_call.args.time_check)
       => \A k \in 1..Len(UrlEvents) :
             LET u == last_async_request_urls[k]
                 again == Again(u, UrlEvents[k]).urls
             IN \E j \in 1..Len(again) :
                   /\ again[j].stream = u.stream
                   /\ again[j].method = u.method
                   /\ Parse(again[j].beginDT) = Parse(u.beginDT)
                   /\ Parse(again[j].endDT) = Parse(u.endDT)

\* t occurs in s, letter for letter
Substring(s, t) ==
    \E i \in 1..(Len(s) + 1) :
        /\ i + Len(t) - 1 <= Len(s)
        /\ \A k \in 1..Len(t) : s[i + k - 1] = t[k]

\* the names of the tags of a url
TagNames(u) == {u.tags[k].name : k \in 1..Len(u.tags)}

\* C13: in every url the user parameter appears only when a user was given
\* to the call and the email parameter only when an email was given; a call
\* with neither gives urls with neither.
C13_OptionalTags ==
    Queried
       => \A k \in 1..Len(last_async_request_urls) :
             /\ "user" \in TagNames(last_async_request_urls[k])
                   => last_call.args.user # DefaultUser
             /\ "email" \in TagNames(last_async_request_urls[k])
                   => last_call.args.email \notin {"None", ""}

\* ts is a text the formatter '%Y-%m-%dT%H:%M:%S.%fZ' gives: six digits
\* of fraction and a trailing Z
FormatterOutput(ts) == ts.frac = 6 /\ ts.tz = "Z" /\ ts.off = 0

\* C14: every beginDT and endDT of a url is an output of the microsecond
\* formatter, also where the time check put the bound of the stream in
\* place of the requested one; the text of the catalog is never copied.
C14_FormattedBounds ==
    Queried
       => \A k \in 1..Len(last_async_request_urls) :
             /\ FormatterOutput(last_async_request_urls[k].beginDT)
             /\ FormatterOutput(last_async_request_urls[k].endDT)

\* C15: with a telemetry given, the urls are those of the same call without
\* telemetry whose method contains the telemetry, in the same order: no
\* stream of another method gets a url and every matching stream keeps
\* its url.  With no telemetry no stream is left out for its method.
C15_TelemetryFilter ==
    Queried
       => LET a == last_call.args
          IN /\ a.telemetry # <<>>
                  => last_async_request_urls
                        = SelectSeq(instrument_to_query(
                                        [a EXCEPT !.telemetry = <<>>]).urls,
                                    LAMBDA u : Substring(u.method, a.telemetry))
             /\ a.telemetry = <<>>
                  => \A k \in 1..Len(last_call.events) :
                        last_call.events[k].step # "telemetry"

\* telemetry "rec" on an instrument with a streamed and a recovered stream:
\* only the recovered one gets a url
C15_Witness ==
    /\ Queried
    /\ last_call.args.telemetry = T_REC
    /\ last_call.args.ref_des = FRAG_GI
    /\ last_call.args.stream = <<>>
    /\ Len(last_async_request_urls) = 1
    /\ last_async_request_urls[1].method = M_RECOVERED
    /\ Len(instrument_to_query([last_call.args EXCEPT !.telemetry = <<>>]).urls) = 2

(***************************************************************************)
(* Lookups                                                                 *)
(***************************************************************************)
\* C11: search_instruments(target) returns exactly the identifiers of the
\* catalog that contain target as a case-sensitive substring, each once, in
\* ascending order of the identifiers.
C11_SearchInstruments ==
    last_call.op = "search_instruments"
       => LET r == last_call.result
          IN /\ \A id \in DOMAIN toc :
                   Substring(id, last_call.target) <=> id \in Range(r)
             /\ Range(r) \subseteq DOMAIN toc
             /\ \A j, k \in 1..Len(r) : j < k => StrLess(r[j], r[k])

\* the fragment GI01SUMO against the catalog of the two instruments
C11_Witness ==
    /\ last_call.op = "search_instruments"
    /\ last_call.target = FRAG_GI
    /\ DOMAIN toc = {RD_GI, RD_CE}
    /\ last_call.result = <<RD_GI>>

\* C12: while no fetch has succeeded, every lookup (search_instruments,
\* search_streams, search_parameters, search_arrays, stream_to_instrument,
\* instrument_to_streams, instrument_to_query) returns an empty result
\* and raises nothing.
C12_UnpopulatedLookups ==
    src.arrays = "none"
       => /\ last_call.op \in {"search_instruments", "search_streams",
                                "search_parameters", "search_arrays",
                                "stream_to_instrument", "instrument_to_streams"}
               => last_call.result = <<>> /\ last_call.raised = "none"
          /\ last_call.op = "instrument_to_query"
               => last_async_request_urls = <<>> /\ last_call.raised = "none"

(***************************************************************************)
(* The format of a reference designator                                    *)
(***************************************************************************)
\* a token of n word characters ("A")
Token(n) == [k \in 1..n |-> 65]

RECURSIVE Join(_)
Join(tokens) ==
    IF tokens = <<>> THEN <<>>
    ELSE IF Len(tokens) = 1 THEN tokens[1]
    ELSE tokens[1] \o <<HYPHEN>> \o Join(Tail(tokens))

\* s with the character at position p, if there is one, replaced by "."
Dotted(s, p) == [k \in 1..Len(s) |-> IF k = p THEN 46 ELSE s[k]]

\* hyphenated names around the four minimum lengths, with a fifth token and
\* with a character that is no word character at the start, inside or at
\* the end, and the names of the catalog
ValidateInputs ==
    { Dotted(Join(<<Token(a), Token(b), Token(c), Token(d)>> \o extra), p) :
         a \in {7, 8}, b \in {4, 5}, c \in {1, 2}, d \in {0, 1, 8, 9},
         extra \in {<<>>, <<Token(3)>>}, p \in {0, 1, 9, 18} }
    \cup {RD_GI, RD_CE, RD_SHORT, FRAG_GI, <<>>}

Validate ==
    \E s \in ValidateInputs :
       /\ last_call' = [op |-> "validate_reference_designator",
                        reference_designator |-> s,
                        result |-> validate_reference_designator(s)]
       /\ UNCHANGED <<toc, instruments, parameters, streams, arrays, url,
                      last_async_request_urls, stderr, src, deployments, client>>

\* exactly four hyphen separated tokens of word characters of at least
\* 8, 5, 2 and 9 characters
FourTokens(s) ==
    LET t == Split(s)
    IN /\ Len(t) = 4
       /\ \A k \in 1..4 : AllWord(t[k])
       /\ Len(t[1]) >= 8 /\ Len(t[2]) >= 5 /\ Len(t[3]) >= 2 /\ Len(t[4]) >= 9

\* C10: validate_reference_designator answers true exactly for the names of
\* four hyphen separated tokens of word characters whose lengths are at
\* least 8, 5, 2 and 9.
C10_ValidateIffFourTokens ==
    last_call.op = "validate_reference_designator"
       => (last_call.result <=> FourTokens(last_call.reference_designator))

(***************************************************************************)
(* Deployment events                                                       *)
(*                                                                         *)
(* A time of the events service is null or a count of milliseconds since   *)
(* the epoch, kept as the whole days d and the milliseconds ms of the day  *)
(* (d * 86400000 + ms).  A status or a search string that was not given is *)
(* the empty string, which python tests like None.                         *)
(*                                                                         *)
(* The fields of every record of this section are written in the order in  *)
(* which TLC keeps them, that of their first appearance in the module, so  *)
(* that a value shared by two workers is never reordered by one of them    *)
(* while the other reads it.                                               *)
(***************************************************************************)
Null == [d |-> 0, null |-> TRUE, ms |-> 0]

Millis(d, ms) == [d |-> d, null |-> FALSE, ms |-> ms]

\* the truth value python gives a time: None and 0 are false
Truthy(t) == ~t.null /\ ~(t.d = 0 /\ t.ms = 0)

NullTs == [y |-> 0, m |-> 0, d |-> 0, z |-> FALSE, sec |-> 0, null |-> TRUE]

\* utcfromtimestamp raises ValueError outside the years 1..9999 and the
\* strftime of python 2 raises it before 1900
TimestampOk(t) ==
    CivilFromDays(t.d).y >= 1900 /\ CivilFromDays(t.d).y <= 9999

\* datetime.utcfromtimestamp(t / 1000).strftime('%Y-%m-%dT%H:%M:%S.%s' + z):
\* the division drops the milliseconds, and what follows the point is the
\* %s of the C library, not a fraction
EventStrftime(t, z) ==
    [y |-> CivilFromDays(t.d).y, m |-> CivilFromDays(t.d).m,
     d |-> CivilFromDays(t.d).d, z |-> z, sec |-> t.ms \div 1000,
     null |-> FALSE]

\* str.lower
Lower(s) ==
    [k \in 1..Len(s) |-> IF s[k] >= 65 /\ s[k] <= 90 THEN s[k] + 32 ELSE s[k]]

\* str.startswith
StartsWith(s, p) == Len(s) >= Len(p) /\ SubSeq(s, 1, Len(p)) = p

ACTIVE == <<97, 99, 116, 105, 118, 101>>  \* "active"
INACTIVE == <<105, 110, 97, 99, 116, 105, 118, 101>>  \* "inactive"
ALL == <<97, 108, 108>>  \* "all"

\* '{:s}-{:s}-{:s}'.format(subsite, node, sensor)
RefDes(rd) == rd.subsite \o <<HYPHEN>> \o rd.node \o <<HYPHEN>> \o rd.sensor

(***************************************************************************)
(* UFrame.search_instrument_deployments                                    *)
(***************************************************************************)
\* the concise deployment event of lines 224-259
DeploymentEvent(event, active) ==
    [instrument |-> [reference_designator |-> RefDes(event.referenceDesignator),
                     subsite |-> event.referenceDesignator.subsite,
                     node |-> event.referenceDesignator.node,
                     sensor |-> event.referenceDesignator.sensor,
                     full |-> event.referenceDesignator.full],
     active |-> active,
     event_start_ms |-> event.eventStartTime,
     event_stop_ms |-> event.eventStopTime,
     deployment_number |-> event.deploymentNumber,
     event_start_ts |-> EventStrftime(event.eventStartTime, TRUE),
     event_stop_ts |-> IF active THEN NullTs
                       ELSE EventStrftime(event.eventStopTime, TRUE),
     valid |-> TRUE]

\* what one pass of the loop of lines 205-275 does with an event: the
\* diagnostic it writes, or that it appends the event
EventStep(event, status, ref_des_search_string) ==
    IF ~event.referenceDesignator.full THEN "Invalid instrument"
    ELSE IF ~Truthy(event.eventStartTime) THEN "no eventStartTime"
    ELSE IF ~TimestampOk(event.eventStartTime) THEN "Error parsing"
    ELSE IF Truthy(event.eventStopTime) /\ ~TimestampOk(event.eventStopTime)
         THEN "Error parsing"
    ELSE IF status # <<>> /\ Lower(status) = ACTIVE
            /\ Truthy(event.eventStopTime) THEN "status"
    ELSE IF status # <<>> /\ Lower(status) = INACTIVE
            /\ ~Truthy(event.eventStopTime) THEN "status"
    ELSE IF ref_des_search_string # <<>>
            /\ ~Contains(RefDes(event.referenceDesignator),
                         ref_des_search_string) THEN "search"
    ELSE "append"

Diagnostic(step) ==
    IF step \in {"Invalid instrument", "no eventStartTime", "Error parsing"}
    THEN <<step>> ELSE <<>>

\* a loop that keeps the raw event before the status and the search string
\* are looked at
RECURSIVE DeploymentLoopRawFirst(_, _, _, _, _)
DeploymentLoopRawFirst(events, k, status, ref_des_search_string, acc) ==
    IF k > Len(events) THEN acc
    ELSE DeploymentLoopRawFirst(events, k + 1, status, ref_des_search_string,
           IF EventStep(events[k], status, ref_des_search_string) = "append"
           THEN [stderr |-> acc.stderr,
                 filtered |-> Append(acc.filtered, events[k]),
                 parsed |-> Append(acc.parsed,
                     DeploymentEvent(events[k], ~Truthy(events[k].eventStopTime)))]
           ELSE IF EventStep(events[k], status, ref_des_search_string)
                      \in {"status", "search"}
           THEN [acc EXCEPT !.filtered = Append(@, events[k])]
           ELSE [acc EXCEPT !.stderr = @ \o
                   Diagnostic(EventStep(events[k], status, ref_des_search_string))])

RECURSIVE DeploymentLoop(_, _, _, _, _)
DeploymentLoop(events, k, status, ref_des_search_string, acc) ==
    IF k > Len(events) THEN acc
    ELSE DeploymentLoop(events, k + 1, status, ref_des_search_string,
           IF EventStep(events[k], status, ref_des_search_string) = "append"
           THEN [stderr |-> acc.stderr,
                 filtered |-> Append(acc.filtered, events[k]),
                 parsed |-> Append(acc.parsed,
                     DeploymentEvent(events[k], ~Truthy(events[k].eventStopTime)))]
           ELSE [acc EXCEPT !.stderr = @ \o
                   Diagnostic(EventStep(events[k], status, ref_des_search_string))])

NoDeployments == [stderr |-> <<>>, filtered |-> <<>>, parsed |-> <<>>]

Looped(events, acc) ==
    [stderr |-> acc.stderr, result |-> acc.parsed, raised |-> "none",
     filtered |-> acc.filtered, parsed |-> acc.parsed, selected |-> events]

\* the three lists are emptied before the request is sent; only
\* MissingSchema is caught, and the handler of an undecodable body reads
\* r.message, which a Response does not have
search_instrument_deployments(resp, status, ref_des_search_string) ==
    IF resp.kind = "MissingSchema"
    THEN [stderr |-> <<"MissingSchema">>, result |-> <<>>, raised |-> "none",
          filtered |-> <<>>, parsed |-> <<>>, selected |-> <<>>]
    ELSE IF resp.kind = "ConnectionError"
    THEN [stderr |-> <<>>, result |-> <<>>, raised |-> resp.kind,
          filtered |-> <<>>, parsed |-> <<>>, selected |-> <<>>]
    ELSE IF resp.status_code # HTTP_STATUS_OK
    THEN [stderr |-> <<"reason">>, result |-> <<>>, raised |-> "none",
          filtered |-> <<>>, parsed |-> <<>>, selected |-> <<>>]
    ELSE IF resp.kind = "body"
    THEN [stderr |-> <<>>, result |-> <<>>, raised |-> "AttributeError",
          filtered |-> <<>>, parsed |-> <<>>, selected |-> <<>>]
    ELSE Looped(resp.data,
                DeploymentLoop(resp.data, 1, status, ref_des_search_string,
                               NoDeployments))

SearchInstrumentDeployments(resp, status, ref_des_search_string) ==
    \E r \in {search_instrument_deployments(resp, status,
                                            ref_des_search_string)} :
       /\ _selected_deployment_events' = r.selected
       /\ _filtered_deployment_events' = r.filtered
       /\ _filtered_parsed_deployment_events' = r.parsed
       /\ stderr' = r.stderr
       /\ last_call' = [op |-> "search_instrument_deployments",
                        response |-> resp,
                        result |-> r.result, raised |-> r.raised,
                        status |-> status,
                        ref_des_search_string |-> ref_des_search_string]
       /\ UNCHANGED <<toc, instruments, parameters, streams, arrays, url,
                      last_async_request_urls, src, client>>

(***************************************************************************)
(* UFrame.get_active_deployments                                           *)
(***************************************************************************)
\* lines 295-298: the state after one more call of
\* search_instrument_deployments, which returned r or raised
ActiveStep(acc, r) ==
    [stderr |-> acc.stderr \o r.stderr,
     result |-> IF r.raised = "none" THEN acc.result \o r.result ELSE <<>>,
     raised |-> r.raised, filtered |-> r.filtered, parsed |-> r.parsed,
     selected |-> r.selected]

\* the loop of lines 294-298 over the instruments found: answers[k] is what
\* the k-th request is answered with; a call that raises ends the loop
RECURSIVE ActiveLoop(_, _, _, _)
ActiveLoop(answers, k, ref_des_search_string, acc) ==
    IF k > Len(answers) \/ acc.raised # "none" THEN acc
    ELSE ActiveLoop(answers, k + 1, ref_des_search_string,
           ActiveStep(acc, search_instrument_deployments(
                               answers[k], ACTIVE, ref_des_search_string)))

\* lines 287-292
ActiveInstruments(ref_des) ==
    IF ref_des # <<>> THEN search_instruments(ref_des) ELSE instruments

\* the lists as they are before the first call
Before ==
    [stderr |-> <<>>, result |-> <<>>, raised |-> "none",
     filtered |-> _filtered_deployment_events,
     parsed |-> _filtered_parsed_deployment_events,
     selected |-> _selected_deployment_events]

get_active_deployments(ref_des, ref_des_search_string, answers) ==
    ActiveLoop(answers, 1, ref_des_search_string,
               [Before EXCEPT !.stderr = IF ref_des # <<>>
                                         THEN EmptyTocDiagnostic ELSE <<>>])

GetActiveDeployments(ref_des, ref_des_search_string, answers) ==
    /\ Len(answers) = Len(ActiveInstruments(ref_des))
    /\ \E r \in {get_active_deployments(ref_des, ref_des_search_string,
                                         answers)} :
          /\ _selected_deployment_events' = r.selected
          /\ _filtered_deployment_events' = r.filtered
          /\ _filtered_parsed_deployment_events' = r.parsed
          /\ _active_deployment_events' =
                 IF r.raised = "none" THEN r.result
                 ELSE _active_deployment_events
          /\ stderr' = r.stderr
          /\ last_call' = [op |-> "get_active_deployments",
                           response |-> answers,
                           result |-> r.result, raised |-> r.raised,
                           ref_des |-> ref_des,
                           ref_des_search_string |-> ref_des_search_string]
          /\ UNCHANGED <<toc, instruments, parameters, streams, arrays, url,
                         last_async_request_urls, src, base_url,
                         _last_async_request_responses>>

(***************************************************************************)
(* search_uframe_instrument_deployments.py                                 *)
(***************************************************************************)
\* the events object of get_instrument_deployment_events, or what it raises
get_instrument_deployment_events(resp) ==
    IF resp.kind = "MissingSchema"
    THEN [raised |-> "none", status |-> FALSE, data |-> <<>>]
    ELSE IF resp.kind = "ConnectionError"
    THEN [raised |-> resp.kind, status |-> FALSE, data |-> <<>>]
    ELSE IF resp.status_code # HTTP_STATUS_OK
    THEN [raised |-> "none", status |-> FALSE, data |-> <<>>]
    ELSE IF resp.kind = "body"
    THEN [raised |-> "AttributeError", status |-> FALSE, data |-> <<>>]
    ELSE [raised |-> "none", status |-> TRUE, data |-> resp.data]

NoneStr == [s |-> <<>>, null |-> TRUE]

Str(s) == [s |-> s, null |-> FALSE]

\* the record of lines 143-177
ParsedEvent(event) ==
    [reference_designator |-> IF event.referenceDesignator.full
                              THEN Str(RefDes(event.referenceDesignator))
                              ELSE NoneStr,
     subsite |-> event.referenceDesignator.subsite,
     node |-> event.referenceDesignator.node,
     sensor |-> event.referenceDesignator.sensor,
     active |-> ~Truthy(event.eventStopTime),
     full |-> event.referenceDesignator.full,
     event_start_ms |-> event.eventStartTime,
     event_stop_ms |-> event.eventStopTime,
     deployment_number |-> event.deploymentNumber,
     event_start_ts |-> EventStrftime(event.eventStartTime, FALSE),
     event_stop_ts |-> IF Truthy(event.eventStopTime)
                       THEN EventStrftime(event.eventStopTime, FALSE)
                       ELSE NullTs]

\* what one pass of the loop of lines 141-182 does with an event
ParseStep(event) ==
    IF ~Truthy(event.eventStartTime) THEN "no eventStartTime"
    ELSE IF ~TimestampOk(event.eventStartTime) THEN "Error parsing"
    ELSE IF Truthy(event.eventStopTime) /\ ~TimestampOk(event.eventStopTime)
         THEN "Error parsing"
    ELSE "append"

RECURSIVE ParseLoop(_, _, _)
ParseLoop(data, k, acc) ==
    IF k > Len(data) THEN acc
    ELSE ParseLoop(data, k + 1,
           IF ParseStep(data[k]) = "append"
           THEN [acc EXCEPT !.result = Append(@, ParsedEvent(data[k]))]
           ELSE [acc EXCEPT !.stderr = Append(@, ParseStep(data[k]))])

parse_asset_deployment_events(events) ==
    IF ~events.status
    THEN [stderr |-> <<"Invalid/unsuccessful request">>, result |-> <<>>]
    ELSE ParseLoop(events.data, 1, [stderr |-> <<>>, result |-> <<>>])

\* the events that pass the status of lines 70-75
StatusEvents(events, status) ==
    IF status # <<>> /\ StartsWith(Lower(status), ACTIVE)
    THEN SelectSeq(events, LAMBDA e : e.active)
    ELSE IF status # <<>> /\ StartsWith(Lower(status), INACTIVE)
    THEN SelectSeq(events, LAMBDA e : ~e.active)
    ELSE events

\* line 81 calls find on the reference designator of every event that
\* passed the status; None has no find
Searched81(status_events, ref_des_search_string) ==
    IF \E k \in 1..Len(status_events) :
          status_events[k].reference_designator.null
    THEN [result |-> <<>>, raised |-> "AttributeError"]
    ELSE [result |-> SelectSeq(status_events,
                       LAMBDA e : Contains(e.reference_designator.s,
                                           ref_des_search_string)),
          raised |-> "none"]

filter_deployment_events(events, status, ref_des_search_string) ==
    IF events = <<>> THEN [result |-> <<>>, raised |-> "none"]
    ELSE IF ref_des_search_string = <<>>
    THEN [result |-> StatusEvents(events, status), raised |-> "none"]
    ELSE Searched81(StatusEvents(events, status), ref_des_search_string)

\* the diagnostic of line 67
FilterDiagnostic(events) ==
    IF events = <<>> THEN <<"No deployment events to filter">> ELSE <<>>

\* main up to line 23: fetch the events and parse them
Parsed(events) ==
    IF events.raised # "none"
    THEN [stderr |-> <<>>, result |-> <<>>, raised |-> events.raised]
    ELSE [stderr |-> parse_asset_deployment_events(events).stderr,
          result |-> parse_asset_deployment_events(events).result,
          raised |-> "none"]

ParseAssetDeploymentEvents(resp) ==
    \E r \in {Parsed(get_instrument_deployment_events(resp))} :
       /\ last_call' = [op |-> "parse_asset_deployment_events",
                        response |-> resp, result |-> r.result,
                        raised |-> r.raised]
       /\ stderr' = r.stderr
       /\ UNCHANGED <<toc, instruments, parameters, streams, arrays, url,
                      last_async_request_urls, src, deployments, client>>

\* main up to line 28: filter what was parsed
FilterDeploymentEvents(resp, status, ref_des_search_string) ==
    \E p \in {Parsed(get_instrument_deployment_events(resp))} :
       /\ p.raised = "none"
       /\ \E r \in {filter_deployment_events(p.result, status,
                                              ref_des_search_string)} :
             /\ last_call' = [op |-> "filter_deployment_events",
                              result |-> r.result, raised |-> r.raised,
                              events |-> p.result, status |-> status,
                              ref_des_search_string |-> ref_des_search_string]
             /\ stderr' = p.stderr \o FilterDiagnostic(p.result)
       /\ UNCHANGED <<toc, instruments, parameters, streams, arrays, url,
                      last_async_request_urls, src, deployments, client>>

(***************************************************************************)
(* UFrame.Events.group_instrument_deployment_events_by_subsite             *)
(***************************************************************************)
\* s[:n]
Prefix(s, n) == SubSeq(s, 1, IF Len(s) < n THEN Len(s) ELSE n)

\* time.strftime('%Y-%m-%dT%H:%M:%S', time.gmtime(t / 1000))
GmStrftime(t) ==
    IF ~Truthy(t) THEN NullTs
    ELSE [y |-> CivilFromDays(t.d).y, m |-> CivilFromDays(t.d).m,
          d |-> CivilFromDays(t.d).d, z |-> FALSE, sec |-> t.ms \div 1000,
          null |-> FALSE]

NoDescription == <<78, 111>>  \* "No Description", shortened

\* the record of lines 27-50
Sensor(d) ==
    [instrument |-> IF d.referenceDesignator.vocab = <<>> THEN NoDescription
                    ELSE d.referenceDesignator.vocab,
     sensor |-> d.referenceDesignator.sensor,
     deploymentNumber |-> d.deploymentNumber,
     endDate |-> d.endDate, startDate |-> d.startDate,
     refdes |-> RefDes(d.referenceDesignator),
     class |-> Prefix(Split(d.referenceDesignator.sensor)[2], 5),
     startDateTs |-> GmStrftime(d.startDate),
     endDateTs |-> GmStrftime(d.endDate)]

\* lines 19-23: a subsite that has no entry yet gets one
WithSubsite(subsites, name) ==
    IF \E i \in 1..Len(subsites) : subsites[i].name = name THEN subsites
    ELSE Append(subsites, [name |-> name, array |-> Prefix(name, 2),
                           children |-> <<>>])

\* lines 25 and 52: the sensor goes to the entry of its subsite
Placed(subsites, name, sensor) ==
    [i \in 1..Len(subsites) |->
        IF subsites[i].name = name
        THEN [subsites[i] EXCEPT !.children = Append(@, sensor)]
        ELSE subsites[i]]

\* line 15
IsInstrument(d) ==
    /\ d.referenceDesignator.subsite # <<>>
    /\ d.referenceDesignator.node # <<>>
    /\ d.referenceDesignator.sensor # <<>>

RECURSIVE GroupLoop(_, _, _)
GroupLoop(instrs, k, subsites) ==
    IF k > Len(instrs) THEN [result |-> subsites, raised |-> "none"]
    ELSE IF Len(Split(instrs[k].referenceDesignator.sensor)) < 2
    THEN [result |-> <<>>, raised |-> "IndexError"]
    ELSE IF \/ Truthy(instrs[k].startDate) /\ ~TimestampOk(instrs[k].startDate)
            \/ Truthy(instrs[k].endDate) /\ ~TimestampOk(instrs[k].endDate)
    THEN [result |-> <<>>, raised |-> "ValueError"]
    ELSE GroupLoop(instrs, k + 1,
            Placed(WithSubsite(subsites, instrs[k].referenceDesignator.subsite),
                   instrs[k].referenceDesignator.subsite, Sensor(instrs[k])))

group_instrument_deployment_events_by_subsite(deployment_events) ==
    GroupLoop(SelectSeq(deployment_events, IsInstrument), 1, <<>>)

GroupInstrumentDeploymentEventsBySubsite(deployment_events) ==
    \E r \in {group_instrument_deployment_events_by_subsite(deployment_events)} :
       /\ last_call' = [op |-> "group_instrument_deployment_events_by_subsite",
                        result |-> r.result, raised |-> r.raised,
                        deployment_events |-> deployment_events]
       /\ stderr' = <<>>
       /\ UNCHANGED <<toc, instruments, parameters, streams, arrays, url,
                      last_async_request_urls, src, deployments, client>>

(***************************************************************************)
(* The events served                                                       *)
(***************************************************************************)
SUBSITE_GI == <<71, 73, 48, 49, 83, 85, 77, 79>>  \* "GI01SUMO"
SUBSITE_GI3 == <<71, 73, 48, 51, 70, 76, 77, 65>>  \* "GI03FLMA"
SUBSITE_CE == <<67, 69, 48, 49, 73, 83, 83, 77>>  \* "CE01ISSM"
NODE_RII == <<82, 73, 73, 48, 49>>  \* "RII01"
NODE_RID == <<82, 73, 68, 49, 54>>  \* "RID16"
SENSOR_FLORT == <<48, 50, 45, 70, 76, 79, 82, 84, 68, 48, 48, 48>>  \* "02-FLORTD000"
SENSOR_CTD == <<48, 51, 45, 67, 84, 68, 66, 80, 67, 48, 48, 48>>  \* "03-CTDBPC000"
SENSOR_BARE == <<67, 84, 68>>  \* "CTD"
VOCAB_FLORT == <<70, 108>>  \* "Fluorometer", shortened

\* 2014-09-10T12:00:00, 2015-08-15T06:30:00.250 and 1887-11-12
T_START == Millis(16323, 43200000)
T_STOP == Millis(16662, 23400250)
T_OLD == Millis(-30000, 0)
T_ZERO == Millis(0, 0)

RawEvent(id, full, subsite, node, sensor, start, stop) ==
    [referenceDesignator |-> [subsite |-> subsite, node |-> node,
                              sensor |-> sensor, full |-> full],
     eventStartTime |-> start, eventStopTime |-> stop,
     deploymentNumber |-> id, eventId |-> id, eventName |-> "deployment"]

E_ACTIVE == RawEvent(1, TRUE, SUBSITE_GI, NODE_RII, SENSOR_FLORT, T_START, Null)
E_ENDED == RawEvent(2, TRUE, SUBSITE_CE, NODE_RID, SENSOR_CTD, T_START, T_STOP)
E_ZEROSTOP == RawEvent(3, TRUE, SUBSITE_GI, NODE_RII, SENSOR_FLORT, T_START, T_ZERO)
E_NOTFULL == RawEvent(4, FALSE, SUBSITE_GI, <<>>, <<>>, T_START, T_STOP)
E_NOSTART == RawEvent(5, TRUE, SUBSITE_GI, NODE_RII, SENSOR_FLORT, Null, Null)
E_OLD == RawEvent(6, TRUE, SUBSITE_CE, NODE_RID, SENSOR_CTD, T_OLD, T_STOP)

EventPool == {E_ACTIVE, E_ENDED, E_ZEROSTOP, E_NOTFULL, E_NOSTART, E_OLD}

\* no event, one event, and an event between two others
EventLists ==
    {<<>>} \cup {<<e>> : e \in EventPool}
           \cup {<<E_ACTIVE, e, E_ENDED>> : e \in EventPool}

EventsResponse(kind, status_code, data) ==
    [status_code |-> status_code, kind |-> kind, data |-> data]

\* requests.get raised MissingSchema or ConnectionError, or the server
\* answered 404, 200 with a body that is no json, or 200 with a list
EventsFailures ==
    {EventsResponse("MissingSchema", 0, <<>>),
     EventsResponse("ConnectionError", 0, <<>>),
     EventsResponse("status", 404, <<>>),
     EventsResponse("body", HTTP_STATUS_OK, <<>>)}

EventsResponses ==
    EventsFailures
       \cup {EventsResponse("json", HTTP_STATUS_OK, l) : l \in EventLists}

Statuses == {<<>>, ALL, ACTIVE, INACTIVE}

SearchStrings == {<<>>, SUBSITE_GI}

\* the .DeploymentEvent records handed to the grouping
GroupEvent(n, subsite, node, sensor, vocab, start, end) ==
    [referenceDesignator |-> [subsite |-> subsite, node |-> node,
                              sensor |-> sensor, vocab |-> vocab],
     deploymentNumber |-> n, endDate |-> end, startDate |-> start]

G_SUMO == GroupEvent(1, SUBSITE_GI, NODE_RII, SENSOR_FLORT, VOCAB_FLORT, T_START, Null)
G_FLMA == GroupEvent(2, SUBSITE_GI3, NODE_RII, SENSOR_CTD, <<>>, T_START, T_STOP)
G_CE == GroupEvent(1, SUBSITE_CE, NODE_RID, SENSOR_CTD, <<>>, T_START, T_STOP)
G_SUBSITE == GroupEvent(1, SUBSITE_CE, <<>>, <<>>, <<>>, T_START, Null)
G_BARE == GroupEvent(3, SUBSITE_CE, NODE_RID, SENSOR_BARE, <<>>, T_START, Null)

GroupPool == {G_SUMO, G_FLMA, G_CE, G_SUBSITE, G_BARE}

GroupLists ==
    {<<>>} \cup {<<a>> : a \in GroupPool}
           \cup {<<a, b>> : a \in GroupPool, b \in GroupPool}

Deployments ==
    \/ \E resp \in EventsResponses : \E status \in Statuses :
          \E s \in SearchStrings : SearchInstrumentDeployments(resp, status, s)
    \/ \E resp \in EventsResponses : ParseAssetDeploymentEvents(resp)
    \/ \E resp \in EventsResponses : \E status \in Statuses :
          \E s \in SearchStrings : FilterDeploymentEvents(resp, status, s)
    \/ \E l \in GroupLists : GroupInstrumentDeploymentEventsBySubsite(l)

(***************************************************************************)
(* Claims about deployment events                                          *)
(***************************************************************************)
Normalised ==
    last_call.op \in {"search_instrument_deployments",
                      "parse_asset_deployment_events"}

\* C16: in every deployment event that search_instrument_deployments or
\* parse_asset_deployment_events returns, active is true exactly when the
\* raw event has no stop time (its eventStopTime is null), and
\* event_stop_ts is null exactly when active is true.
C16_ActiveIffNoStopTime ==
    Normalised
       => \A k \in 1..Len(last_call.result) :
             /\ last_call.result[k].active
                   <=> last_call.result[k].event_stop_ms.null
             /\ last_call.result[k].event_stop_ts.null
                   <=> last_call.result[k].active

\* the raw event has a fully-qualified reference designator and a start time
Qualified(event) ==
    event.referenceDesignator.full /\ ~event.eventStartTime.null

\* the times of the raw event can be converted
Convertible(event) ==
    /\ TimestampOk(event.eventStartTime)
    /\ Truthy(event.eventStopTime) => TimestampOk(event.eventStopTime)

\* C17: no deployment event returned by search_instrument_deployments or by
\* parse_asset_deployment_events comes from a raw event without a
\* fully-qualified reference designator or without a start time, and every
\* other raw event of the same response whose times convert is returned
\* when nothing is filtered.
C17_SkipsUnqualifiedEvents ==
    Normalised /\ last_call.response.kind = "json"
               /\ last_call.raised = "none"
       => /\ \A k \in 1..Len(last_call.result) :
                \E j \in 1..Len(last_call.response.data) :
                   /\ last_call.response.data[j].deploymentNumber
                         = last_call.result[k].deployment_number
                   /\ Qualified(last_call.response.data[j])
          /\ (last_call.op = "search_instrument_deployments"
                 => last_call.status = <<>>
                    /\ last_call.ref_des_search_string = <<>>)
               => \A j \in 1..Len(last_call.response.data) :
                     Qualified(last_call.response.data[j])
                        /\ Convertible(last_call.response.data[j])
                     => \E k \in 1..Len(last_call.result) :
                           last_call.result[k].deployment_number
                              = last_call.response.data[j].deploymentNumber

\* the status asked for admits an event that is active or not
Admits(status, active) ==
    /\ status = ACTIVE => active
    /\ status = INACTIVE => ~active

\* C18: filter_deployment_events returns, in the order of the input, exactly
\* the events that the status admits (active: the active ones, inactive:
\* the others, all or none: every event) and whose reference designator
\* contains the search string when one is given, and so does the filter of
\* search_instrument_deployments on the events it normalises.
C18_FilterDeploymentEvents ==
    /\ last_call.op = "filter_deployment_events"
          => /\ last_call.raised = "none"
             /\ last_call.result
                   = SelectSeq(last_call.events,
                        LAMBDA e :
                           /\ Admits(last_call.status, e.active)
                           /\ last_call.ref_des_search_string # <<>>
                                 => /\ ~e.reference_designator.null
                                    /\ Substring(e.reference_designator.s,
                                          last_call.ref_des_search_string))
    /\ last_call.op = "search_instrument_deployments"
          /\ last_call.response.kind = "json"
          => last_call.result
                = SelectSeq(search_instrument_deployments(
                               last_call.response, <<>>, <<>>).result,
                     LAMBDA e :
                        /\ Admits(last_call.status, e.active)
                        /\ Substring(e.instrument.reference_designator,
                                     last_call.ref_des_search_string))

\* the instruments among the events handed to the grouping
Grouped == SelectSeq(last_call.deployment_events, IsInstrument)

\* C19: group_instrument_deployment_events_by_subsite puts two events whose
\* subsites start with the same two characters into the same bucket, and
\* makes exactly one bucket for every two character prefix.
C19_OneBucketPerArray ==
    last_call.op = "group_instrument_deployment_events_by_subsite"
       /\ last_call.raised = "none"
       => /\ Len(last_call.result)
                = Cardinality({Prefix(Grouped[k].referenceDesignator.subsite, 2) :
                                  k \in 1..Len(Grouped)})
          /\ \A j, k \in 1..Len(Grouped) :
                Prefix(Grouped[j].referenceDesignator.subsite, 2)
                   = Prefix(Grouped[k].referenceDesignator.subsite, 2)
                => \E i \in 1..Len(last_call.result) :
                      {Sensor(Grouped[j]), Sensor(Grouped[k])}
                         \subseteq Range(last_call.result[i].children)

\* the request failed at the network or with a status that is not 200
RequestFailures == {r \in EventsFailures : r.kind # "body"}

\* C20: a search_instrument_deployments whose request fails returns an empty
\* list, raises nothing, and leaves all_deployment_events, deployment_events
\* and instrument_deployments as they were before the call.
C20_FailedRequestKeepsDeployments ==
    [][(last_call'.op = "search_instrument_deployments"
           /\ last_call'.response \in RequestFailures)
          => /\ last_call'.result = <<>>
             /\ last_call'.raised = "none"
             /\ UNCHANGED deployments]_vars

(***************************************************************************)
(* UFrame.send_async_requests and requests/send_async_requests.py          *)
(*                                                                         *)
(* A request url is text.  Of its query string only "format=application/"  *)
(* and the format are written: the other parameters hold neither "/" nor   *)
(* "?" and "sensor/inv", which is all the parser of the url looks at.      *)
(***************************************************************************)
SLASH == 47

QUESTION == 63

\* the characters str.strip removes
Whitespace == {9, 10, 13, 32}

\* "http://" and "https://"
Http == <<104, 116, 116, 112, 58, 47, 47>>

Https == <<104, 116, 116, 112, 115, 58, 47, 47>>

\* ":12576"
Port == <<58, 49, 50, 53, 55, 54>>

\* "/sensor/inv/"
SensorInv == <<47, 115, 101, 110, 115, 111, 114, 47, 105, 110, 118, 47>>

\* "format=application/netcdf"
QueryText == <<102, 111, 114, 109, 97, 116, 61, 97, 112, 112, 108, 105, 99, 97, 116, 105, 111, 110, 47, 110, 101, 116, 99, 100, 102>>

\* "URL points to alternate UFrame instance"
Alternate == <<85, 82, 76, 32, 112, 111, 105, 110, 116, 115, 32, 116, 111, 32, 97, 108, 116, 101, 114, 110, 97, 116, 101, 32, 85, 70, 114, 97, 109, 101, 32, 105, 110, 115, 116, 97, 110, 99, 101>>

\* the first index of c in s from k on, 0 if there is none
RECURSIVE IndexFrom(_, _, _)
IndexFrom(s, c, k) ==
    IF k > Len(s) THEN 0
    ELSE IF s[k] = c THEN k ELSE IndexFrom(s, c, k + 1)

\* s[from..].split(c)
RECURSIVE SplitFrom(_, _, _, _)
SplitFrom(s, c, from, i) ==
    IF i = 0 THEN <<SubSeq(s, from, Len(s))>>
    ELSE <<SubSeq(s, from, i - 1)>>
            \o SplitFrom(s, c, i + 1, IndexFrom(s, c, i + 1))

SplitAt(s, c) == SplitFrom(s, c, 1, IndexFrom(s, c, 1))

RECURSIVE JoinWith(_, _)
JoinWith(tokens, c) ==
    IF tokens = <<>> THEN <<>>
    ELSE IF Len(tokens) = 1 THEN tokens[1]
    ELSE tokens[1] \o <<c>> \o JoinWith(Tail(tokens), c)

RECURSIVE StripBetween(_, _, _)
StripBetween(s, i, j) ==
    IF i > j THEN <<>>
    ELSE IF s[i] \in Whitespace THEN StripBetween(s, i + 1, j)
    ELSE IF s[j] \in Whitespace THEN StripBetween(s, i, j - 1)
    ELSE SubSeq(s, i, j)

Strip(s) == StripBetween(s, 1, Len(s))

\* line 638: the url of five path tokens at the url of an instance
RequestText(base, tokens) ==
    base \o Port \o SensorInv \o JoinWith(tokens, SLASH)
         \o <<QUESTION>> \o QueryText

\* the text of a url instrument_to_query made
UrlText(u) ==
    RequestText(base_url,
                <<u.r_tokens[1], u.r_tokens[2],
                  u.r_tokens[3] \o <<HYPHEN>> \o u.r_tokens[4],
                  u.method, u.stream>>)

\* the length of the scheme ^https?:\/\/ matches, 0 if it does not
Scheme(s) ==
    IF StartsWith(s, Http) THEN Len(Http)
    ELSE IF StartsWith(s, Https) THEN Len(Https) ELSE 0

\* the last index of c in s up to k, 0 if there is none
RECURSIVE LastIndex(_, _, _)
LastIndex(s, c, k) ==
    IF k < 1 THEN 0
    ELSE IF s[k] = c THEN k ELSE LastIndex(s, c, k - 1)

\* the last place from i down, after the scheme, where /sensor/inv/ starts
RECURSIVE LastInv(_, _)
LastInv(s, i) ==
    IF i <= Scheme(s) THEN 0
    ELSE IF SubSeq(s, i, i + Len(SensorInv) - 1) = SensorInv THEN i
    ELSE LastInv(s, i - 1)

\* the group between /sensor/inv/ at i and the ? at q
Group(s, i, q) ==
    IF i = 0
    THEN [match |-> FALSE, group |-> <<>>]
    ELSE [match |-> TRUE, group |-> SubSeq(s, i + Len(SensorInv), q - 1)]

GroupUpTo(s, q) ==
    IF Scheme(s) = 0 THEN Group(s, 0, q)
    ELSE Group(s, LastInv(s, q - Len(SensorInv)), q)

\* re.compile('^https?:\/\/.*\/sensor\/inv\/(.*)\?').match(url): both .* are
\* greedy, so the group runs from the last /sensor/inv/ before it to the
\* last ?
request_regexp(s) == GroupUpTo(s, LastIndex(s, QUESTION, Len(s)))

\* lines 803-804
request_tokens(match) == SplitAt(match.group, SLASH)

RequestTokens == 5

Matched(match) ==
    match.match /\ Len(request_tokens(match)) = RequestTokens

\* the url has the shape the parser asks for
Shaped(s) == Matched(request_regexp(s))

NoInstrument ==
    [stream |-> <<>>, telemetry |-> <<>>, null |-> TRUE,
     subsite |-> <<>>, node |-> <<>>, sensor |-> <<>>]

\* lines 774-782: the response record a url starts with (its m2m entry is
\* never written again and is left out)
Response(request_url) ==
    [reference_designator |-> NoneStr, stream |-> <<>>, status_code |-> -1,
     response |-> "None", instrument |-> NoInstrument, status |-> FALSE,
     reason |-> "None", requestUrl |-> request_url]

BadlyFormatted == "Badly Formatted Request"

\* lines 811-821 and 126-132: what is read from the five tokens; order is
\* the order the stream name is joined in
Tokenised(rec, tokens, order) ==
    [rec EXCEPT !.reference_designator = Str(Join(SubSeq(tokens, 1, 3))),
                !.stream = Join([k \in 1..Len(order) |-> tokens[order[k]]]),
                !.instrument = [stream |-> tokens[5],
                                telemetry |-> tokens[4], null |-> FALSE,
                                subsite |-> tokens[1], node |-> tokens[2],
                                sensor |-> tokens[3]]]

\* lines 823-848 and 137-157: the request is sent and answered.  The handler
\* of a body that is no json names requests.exceptions.ValueError, which
\* that module does not have: finding the handler raises AttributeError.
\* A body that is the json null decodes to None.
Passed(rec, diags, raised) ==
    [stderr |-> diags, raised |-> raised, record |-> rec, sent |-> TRUE]

Answered(rec, answer) ==
    IF answer.kind = "RequestException"
    THEN Passed([rec EXCEPT !.reason = "exception"],
                <<"RequestException">>, "none")
    ELSE IF answer.status_code # HTTP_STATUS_OK
    THEN Passed([rec EXCEPT !.status_code = answer.status_code,
                            !.reason = "r.reason"], <<>>, "none")
    ELSE IF answer.kind = "body"
    THEN Passed([rec EXCEPT !.status_code = answer.status_code,
                            !.reason = "r.reason"], <<>>, "AttributeError")
    ELSE Passed([rec EXCEPT !.status_code = answer.status_code,
                            !.reason = "r.reason", !.status = TRUE,
                            !.response = IF answer.kind = "null"
                                         THEN "None" ELSE "json"],
                <<>>, "none")

NotSent(rec) ==
    [stderr |-> <<>>, raised |-> "none", record |-> rec, sent |-> FALSE]

\* lines 791-848 and 111-157: the url is matched, read and sent; order is
\* the order the stream name is joined in
Parsed791(request_url, match, order, answer) ==
    IF ~Matched(match)
    THEN NotSent([Response(Strip(request_url))
                     EXCEPT !.reason = BadlyFormatted])
    ELSE Answered(Tokenised(Response(Strip(request_url)),
                            request_tokens(match), order), answer)

\* one pass of the loop of lines 769-848
AsyncPass(request_url, answer) ==
    IF ~StartsWith(request_url, base_url) THEN NotSent(Response(Alternate))
    ELSE Parsed791(request_url, request_regexp(request_url),
                   <<1, 2, 3, 5, 4>>, answer)

\* send_async_request of requests/send_async_requests.py (debug=False)
send_async_request(request_url, answer) ==
    Parsed791(request_url, request_regexp(request_url),
              <<1, 2, 3, 4, 5>>, answer)

\* the state of the loop after one more pass: a pass that raised appends
\* nothing
AsyncStep(acc, request_url, pass) ==
    [stderr |-> acc.stderr \o pass.stderr,
     raised |-> pass.raised,
     sent |-> IF pass.sent THEN Append(acc.sent, Strip(request_url))
              ELSE acc.sent,
     responses |-> IF pass.raised = "none"
                   THEN Append(acc.responses, pass.record)
                   ELSE acc.responses]

RECURSIVE AsyncLoop(_, _, _, _)
AsyncLoop(urls, answers, k, acc) ==
    IF k > Len(urls) \/ acc.raised # "none" THEN acc
    ELSE AsyncLoop(urls, answers, k + 1,
                   AsyncStep(acc, urls[k], AsyncPass(urls[k], answers[k])))

\* lines 754-756: the urls of the last instrument_to_query if none is given
Batch755(urls) ==
    IF urls = <<>>
    THEN [k \in 1..Len(last_async_request_urls) |->
             UrlText(last_async_request_urls[k])]
    ELSE urls

send_async_requests(urls, answers) ==
    AsyncLoop(urls, answers, 1,
              [stderr |-> <<>>, raised |-> "none", sent |-> <<>>,
               responses |-> <<>>])

\* a call with a list of urls; with no url to send nothing is returned and
\* the responses of the last call are kept
SendAsyncRequests(urls, answers) ==
    /\ Len(answers) = Len(Batch755(urls))
    /\ \E r \in {send_async_requests(Batch755(urls), answers)} :
          /\ _last_async_request_responses' =
                 IF Batch755(urls) = <<>> THEN _last_async_request_responses
                 ELSE r.responses
          /\ stderr' = IF Batch755(urls) = <<>> THEN <<"No urls to send">>
                       ELSE r.stderr
          /\ last_call' = [op |-> "send_async_requests",
                           result |-> r.responses, raised |-> r.raised,
                           urls |-> Batch755(urls), given |-> urls,
                           answers |-> answers, sent |-> r.sent]
    /\ UNCHANGED <<toc, instruments, parameters, streams, arrays, url,
                   last_async_request_urls, src, deployments, base_url,
                   _active_deployment_events>>

\* main of requests/send_async_requests.py sends one url after the other
SendAsyncRequest(request_url, answer) ==
    \E r \in {send_async_request(request_url, answer)} :
       /\ stderr' = r.stderr
       /\ last_call' = [op |-> "send_async_request",
                        result |-> IF r.raised = "none"
                                   THEN <<r.record>> ELSE <<>>,
                        raised |-> r.raised,
                        urls |-> <<request_url>>,
                        given |-> <<request_url>>, answers |-> <<answer>>,
                        sent |-> IF r.sent THEN <<Strip(request_url)>>
                                 ELSE <<>>]
       /\ UNCHANGED <<toc, instruments, parameters, streams, arrays, url,
                      last_async_request_urls, src, deployments, client>>

(***************************************************************************)
(* The urls sent                                                           *)
(***************************************************************************)
\* "GI01SUMO-RII01-02-FLORTD0001": an identifier that holds another one
RD_GI1 == RD_GI \o <<49>>

\* "GI01SUMO-RII01-02-FLORTD000-X": an identifier of five tokens
RD_LONG == RD_GI \o <<HYPHEN, 88>>

TocList3 ==
    [id |-> "list3", type |-> "list", value |->
       << [streams |-> GI_Streams, reference_designator |-> RD_GI,
           instrument_parameters |-> << [particleKey |-> P_CHLA] >>],
          [streams |-> CE_Streams, reference_designator |-> RD_GI1,
           instrument_parameters |-> << [particleKey |-> P_TEMP] >>],
          [streams |-> CE_Streams, reference_designator |-> RD_LONG,
           instrument_parameters |-> << [particleKey |-> P_PRES] >>] >>]

\* a 200 answer of the table of contents request with payload p
Ok(p) ==
    [id |-> p.id, error |-> FALSE, status_code |-> HTTP_STATUS_OK,
     json |-> TRUE, body |-> p]

\* what a request url is answered with: requests.get raises, 404, 200 with
\* a body that is no json, 200 with a json object, 200 with the json null
AsyncAnswers ==
    {EventsResponse("RequestException", 0, <<>>),
     EventsResponse("status", 404, <<>>),
     EventsResponse("body", HTTP_STATUS_OK, <<>>),
     EventsResponse("json", HTTP_STATUS_OK, <<>>),
     EventsResponse("null", HTTP_STATUS_OK, <<>>)}

\* the answers to the requests after the first of a batch
LaterAnswers ==
    {EventsResponse("body", HTTP_STATUS_OK, <<>>),
     EventsResponse("json", HTTP_STATUS_OK, <<>>)}

FiveTokens == <<SUBSITE_GI, NODE_RII, SENSOR_FLORT, M_STREAMED, S_FLORT>>

FourTokens4 == <<SUBSITE_GI, NODE_RII, SENSOR_FLORT, M_STREAMED>>

U_GOOD == RequestText(BASE_URL, FiveTokens)

\* a line of a file of urls
U_NEWLINE == U_GOOD \o <<10>>

U_ALTERNATE == RequestText(BASE_B, FiveTokens)

U_FOUR == RequestText(BASE_URL, FourTokens4)

U_NOQUERY == BASE_URL \o Port \o SensorInv \o JoinWith(FiveTokens, SLASH)

U_ALTERNATE_FOUR == RequestText(BASE_B, FourTokens4)

UrlPool ==
    {U_GOOD, U_NEWLINE, U_ALTERNATE, U_FOUR, U_NOQUERY, U_ALTERNATE_FOUR}

UrlLists ==
    {<<>>} \cup {<<u>> : u \in UrlPool}
       \cup {<<u, U_GOOD>> : u \in {U_GOOD, U_FOUR, U_ALTERNATE_FOUR}}

\* the urls given to the script
ScriptUrls == {U_GOOD, U_NOQUERY}

AsyncArgs ==
    {Args(r, <<>>, <<>>, "", 0, None, None, TRUE) :
        r \in {RD_GI1, RD_LONG, FRAG_NONE}}

Async ==
    \/ \E a \in AsyncArgs : InstrumentToQuery(a)
    \/ \E urls \in UrlLists : \E first \in AsyncAnswers :
          \E other \in LaterAnswers :
             SendAsyncRequests(urls, [k \in 1..Len(Batch755(urls)) |->
                                         IF k = 1 THEN first ELSE other])
    \/ \E u \in ScriptUrls : \E answer \in AsyncAnswers :
          SendAsyncRequest(u, answer)

(***************************************************************************)
(* Claims about the urls sent                                              *)
(***************************************************************************)
Sent == last_call.op \in {"send_async_requests", "send_async_request"}

\* C22: a url without the five token path after /sensor/inv/ is not raised
\* as an error: a record with a reason and status False is appended for it,
\* no request is sent for it, and the other urls of the batch get their
\* records.
C22_MalformedRecorded ==
    (Sent /\ last_call.raised = "none")
       => /\ Len(last_call.result) = Len(last_call.urls)
          /\ \A k \in 1..Len(last_call.urls) :
                ~Shaped(last_call.urls[k])
                   => /\ k <= Len(last_call.result)
                      /\ last_call.result[k].reason # "None"
                      /\ ~last_call.result[k].status
                      /\ Strip(last_call.urls[k]) \notin Range(last_call.sent)

\* C24: send_async_requests returns one record per url of the batch, in the
\* order of the urls; a request is sent only for a url that starts with
\* base_url and has the five token path; a record no request was sent for
\* keeps status False and status_code -1.
C24_OneRecordPerUrl ==
    last_call.op = "send_async_requests"
       => /\ last_call.raised = "none"
          /\ Len(last_call.result) = Len(last_call.urls)
          /\ \A k \in 1..Len(last_call.urls) :
                /\ k <= Len(last_call.result)
                /\ last_call.result[k].requestUrl
                      \in {Strip(last_call.urls[k]), Alternate}
                /\ last_call.result[k].instrument.null
                      => /\ ~last_call.result[k].status
                         /\ last_call.result[k].status_code = -1
          /\ Range(last_call.sent)
                \subseteq {Strip(u) : u \in {x \in Range(last_call.urls) :
                                StartsWith(x, base_url) /\ Shaped(x)}}

\* the answer to the request of the k-th record decoded as json
Decoded(k) ==
    /\ ~last_call.result[k].instrument.null
    /\ last_call.answers[k].kind \in {"json", "null"}
    /\ last_call.answers[k].status_code = HTTP_STATUS_OK

\* C25: in every record of send_async_requests and of send_async_request
\* status is True iff the request was answered 200 with a body that decoded
\* as json; a record with status True has a response and status_code 200, a
\* record with status False has no response.
C25_StatusIffDecoded ==
    Sent
       => \A k \in 1..Len(last_call.result) :
             /\ last_call.result[k].status <=> Decoded(k)
             /\ last_call.result[k].status
                   => /\ last_call.result[k].response # "None"
                      /\ last_call.result[k].status_code = HTTP_STATUS_OK
             /\ ~last_call.result[k].status
                   => last_call.result[k].response = "None"

\* C26: every url instrument_to_query makes for identifier I, method M and
\* stream S is accepted by the parser of send_async_requests (five tokens),
\* which records reference_designator = I, telemetry = M and stream = S.
C26_RoundTrip ==
    [][(last_call.op = "instrument_to_query"
          /\ last_call'.op = "send_async_requests"
          /\ last_call'.given = <<>>)
         => \A k \in 1..Len(Made(last_call.events)) :
               /\ Shaped(last_call'.urls[k])
               /\ k <= Len(last_call'.result)
                     => /\ last_call'.result[k].reference_designator
                             = Str(Made(last_call.events)[k].instrument)
                        /\ last_call'.result[k].instrument.telemetry
                             = Made(last_call.events)[k].stream.method
                        /\ last_call'.result[k].instrument.stream
                             = Made(last_call.events)[k].stream.stream]_vars

(***************************************************************************)
(* The deployment events of the instruments of the table of contents       *)
(***************************************************************************)
\* what a request of get_active_deployments is answered with
ActiveAnswers ==
    {EventsResponse("json", HTTP_STATUS_OK, <<E_ACTIVE, E_ENDED, E_ZEROSTOP>>),
     EventsResponse("json", HTTP_STATUS_OK, <<E_NOTFULL, E_ACTIVE>>),
     EventsResponse("json", HTTP_STATUS_OK, <<>>),
     EventsResponse("status", 404, <<>>),
     EventsResponse("ConnectionError", 0, <<>>)}

\* the most instruments a table of contents of the model holds
MaxInstruments == 2

AnswerLists ==
    UNION {[1..n -> ActiveAnswers] : n \in 0..MaxInstruments}

ActiveDeployments ==
    \/ \E resp \in ActiveAnswers : \E status \in {<<>>, INACTIVE} :
          \E s \in SearchStrings : SearchInstrumentDeployments(resp, status, s)
    \/ \E ref_des \in {<<>>, FRAG_GI, FRAG_NONE} : \E s \in SearchStrings :
          \E answers \in AnswerLists :
             GetActiveDeployments(ref_des, s, answers)

\* C30: after any sequence of search_instrument_deployments and
\* get_active_deployments calls deployment_events and instrument_deployments
\* have the same length, the i-th record of instrument_deployments is the
\* one made from the i-th event of deployment_events, and every event of
\* deployment_events is an element of all_deployment_events.
C30_AlignedDeployments ==
    /\ Len(_filtered_deployment_events)
          = Len(_filtered_parsed_deployment_events)
    /\ \A i \in 1..Len(_filtered_deployment_events) :
          /\ i <= Len(_filtered_parsed_deployment_events)
          /\ _filtered_parsed_deployment_events[i]
                = DeploymentEvent(_filtered_deployment_events[i],
                     ~Truthy(_filtered_deployment_events[i].eventStopTime))
          /\ _filtered_deployment_events[i]
                \in Range(_selected_deployment_events)

\* get_active_deployments went through several instruments and its last call kept
\* some of the events it was answered with and dropped others
C30_Witness ==
    /\ last_call.op = "get_active_deployments"
    /\ Len(last_call.response) > 1
    /\ last_call.raised = "none"
    /\ _filtered_deployment_events # <<>>
    /\ Len(_filtered_deployment_events) < Len(_selected_deployment_events)
    /\ Len(_active_deployment_events) > Len(_filtered_deployment_events)

(***************************************************************************)
(* The base_url property                                                   *)
(***************************************************************************)
BaseUrls == {BASE_URL, BASE_B}

\* what the table of contents request may be answered with at a base url:
\* the first instance holds list1 and dict1, the second list2
Served(u) ==
    {resp \in Responses :
        resp.id \in {"unreachable", "503", "notjson"}
                       \cup (IF u = BASE_URL THEN {"list1", "dict1"}
                                             ELSE {"list2"})}

\* the outcomes of _fetch_toc that leave it as an exception
FetchRaises == {"AttributeError", "KeyError"}

\* lines 75-78: a url that is None or empty is refused and nothing is set
SetBaseUrlNone ==
    /\ stderr' = <<"No base_url specified">>
    /\ last_call' = [value |-> <<>>, outcome |-> "none",
                     op |-> "base_url", response |-> "none"]
    /\ UNCHANGED <<toc, instruments, parameters, streams, arrays, url,
                   last_async_request_urls, src, deployments, client>>

\* lines 95-111 of the setter of a client made with validate=False: the url
\* is stored, the table of contents is fetched at it, and if the fetch
\* returned the deployment events and the asynchronous requests are emptied
SetBaseUrl(u, resp) ==
    \E pbsOrder \in PbsOrders(resp) : \E tocOrder \in TocOrders(resp) :
        \E r \in {FetchToc(Catalog, resp, pbsOrder, tocOrder)} :
           /\ base_url' = u
           /\ url' = TocUrl
           /\ toc' = r.toc
           /\ instruments' = r.instruments
           /\ parameters' = r.parameters
           /\ streams' = r.streams
           /\ arrays' = r.arrays
           /\ src' = r.src
           /\ stderr' = r.stderr
           /\ last_call' = [value |-> u, outcome |-> r.outcome,
                            op |-> "base_url", response |-> resp.id]
           /\ IF r.outcome \in FetchRaises
              THEN UNCHANGED <<last_async_request_urls, deployments,
                               _last_async_request_responses,
                               _active_deployment_events>>
              ELSE /\ _selected_deployment_events' = <<>>
                   /\ _filtered_deployment_events' = <<>>
                   /\ _filtered_parsed_deployment_events' = <<>>
                   /\ _active_deployment_events' = <<>>
                   /\ last_async_request_urls' = <<>>
                   /\ _last_async_request_responses' = <<>>

Client ==
    \/ SetBaseUrlNone
    \/ \E u \in BaseUrls : \E resp \in Served(u) : SetBaseUrl(u, resp)
    \/ \E t \in SearchTargets : SearchInstruments(t)

\* the identifiers an instance holds
Held(u) ==
    UNION {{rec.reference_designator :
               rec \in Range(IF resp.body.type = "list"
                             THEN resp.body.value
                             ELSE resp.body.value.instruments)} :
              resp \in {x \in Served(u) : x.json}}

\* C29: the table of contents a client holds is empty or was fetched from
\* its current base_url: search_instruments returns no identifier that the
\* instance at base_url does not hold, also after base_url was set to a new
\* value and the fetch there failed.
C29_CatalogOfBaseUrl ==
    /\ DOMAIN toc = {} \/ src.toc \in {resp.id : resp \in Served(base_url)}
    /\ \A t \in SearchTargets :
          Range(search_instruments(t)) \subseteq Held(base_url)

(***************************************************************************)
(* The command line scripts search_instrument_deployments.py and           *)
(* search_uframe_instrument_deployments.py                                 *)
(*                                                                         *)
(* A run is a process of its own: it makes its own client, writes to       *)
(* stdout and stderr and ends with an exit code.  A main that returns n    *)
(* ends the process with sys.exit(n); an exception no handler catches ends *)
(* it with the traceback and exit code 1.                                  *)
(***************************************************************************)
\* the client before its first fetch (lines 43-58 of the constructor)
NoCatalog ==
    [toc |-> <<>>, instruments |-> <<>>, parameters |-> <<>>,
     streams |-> <<>>, arrays |-> <<>>, stderr |-> <<>>,
     src |-> [toc |-> "none", instruments |-> "none", parameters |-> "none",
              streams |-> "none", arrays |-> "none"],
     outcome |-> "none"]

\* the outcomes of _fetch_toc in UFrame(base_url=base_url) for a server that
\* answers the table of contents request with resp
Constructed(resp) ==
    {FetchToc(NoCatalog, resp, pbsOrder, tocOrder).outcome :
        pbsOrder \in PbsOrders(resp), tocOrder \in TocOrders(resp)}

\* what a run leaves: its exit code, what it wrote to stdout, the exception
\* that ended it
Exit(code, stdout, raised) ==
    [raised |-> raised, stdout |-> stdout, exit |-> code]

\* lines 32-63 of search_instrument_deployments.py: r is what
\* uframe.search_instrument_deployments returned or raised
Printed32(r, json) ==
    IF r.raised # "none" THEN Exit(1, <<>>, r.raised)
    ELSE IF json THEN Exit(0, <<r.result>>, "none")
    ELSE IF r.result = <<>> THEN Exit(0, <<>>, "none")
    ELSE Exit(0, r.result, "none")

\* main of search_instrument_deployments.py: base_url is the -b argument,
\* environ the value of UFRAME_BASE_URL (empty if not set), outcome what the
\* fetch of the constructor did, resp the answer to the events request
search_instrument_deployments_main(base, environ, outcome, resp, status, s, json) ==
    IF base = <<>> /\ environ = <<>> THEN Exit(1, <<>>, "none")
    ELSE IF outcome \in FetchRaises THEN Exit(1, <<>>, outcome)
    ELSE Printed32(search_instrument_deployments(resp, status, s), json)

\* lines 98-101 of search_uframe_instrument_deployments.py: main calls
\* get_instrument_deployment_events without base_url, so that only the
\* environment is read; without it the events object is returned as made
EventsOf(environ, resp) ==
    IF environ = <<>>
    THEN [raised |-> "none", status |-> FALSE, data |-> <<>>]
    ELSE get_instrument_deployment_events(resp)

\* lines 25-56: events is a dict with three keys, which `not events` never
\* holds for; with no event left line 31 reads args.active, an option the
\* parser of lines 185-207 does not define
Filtered25(f) ==
    IF f.raised # "none" THEN Exit(1, <<>>, f.raised)
    ELSE IF f.result = <<>> THEN Exit(1, <<>>, "AttributeError")
    ELSE Exit(0, f.result, "none")

Parsed23(events, status, ref_des_search_string) ==
    IF events.raised # "none" THEN Exit(1, <<>>, events.raised)
    ELSE Filtered25(filter_deployment_events(
                       parse_asset_deployment_events(events).result,
                       status, ref_des_search_string))

\* main of search_uframe_instrument_deployments.py
search_uframe_instrument_deployments_main(environ, resp, status, s) ==
    Parsed23(EventsOf(environ, resp), status, s)

SearchInstrumentDeploymentsMain(base, environ, toc_resp, resp, status, s, json) ==
    \E outcome \in Constructed(toc_resp) :
       \E r \in {search_instrument_deployments_main(base, environ, outcome,
                     resp, status, s, json)} :
          /\ last_call' = [json |-> json, op |-> "main",
                           response |-> resp, raised |-> r.raised,
                           status |-> status,
                           ref_des_search_string |-> s,
                           base |-> base, stdout |-> r.stdout,
                           exit |-> r.exit,
                           environ |-> environ, toc_response |-> toc_resp.id,
                           script |-> "search_instrument_deployments.py"]
          /\ stderr' = IF r.exit = 1 /\ r.raised = "none"
                       THEN <<"No UFrame instance specified">>
                       ELSE IF r.raised # "none" THEN <<"Traceback">>
                       ELSE <<>>
          /\ UNCHANGED <<toc, instruments, parameters, streams, arrays, url,
                         last_async_request_urls, src, deployments, client>>

SearchUframeInstrumentDeploymentsMain(base, environ, resp, status, s) ==
    \E r \in {search_uframe_instrument_deployments_main(environ, resp,
                  status, s)} :
       /\ last_call' = [json |-> FALSE, op |-> "main",
                        response |-> resp, raised |-> r.raised,
                        status |-> status,
                        ref_des_search_string |-> s,
                        base |-> base, stdout |-> r.stdout,
                        exit |-> r.exit,
                        environ |-> environ, toc_response |-> "none",
                        script |-> "search_uframe_instrument_deployments.py"]
       /\ stderr' = IF environ = <<>>
                    THEN <<"No UFrame base url specified", "Traceback">>
                    ELSE IF r.raised # "none" THEN <<"Traceback">>
                    ELSE <<>>
       /\ UNCHANGED <<toc, instruments, parameters, streams, arrays, url,
                      last_async_request_urls, src, deployments, client>>

\* the answers to the events request of a run
MainResponses ==
    EventsFailures
       \cup {EventsResponse("json", HTTP_STATUS_OK, l) :
                l \in {<<>>, <<E_ACTIVE>>, <<E_ACTIVE, E_NOTFULL, E_ENDED>>}}

\* the answers to the table of contents request of a run
MainTocResponses ==
    {resp \in Responses : resp.id \in {"unreachable", "503", "list1"}}

\* the -s option: all is the default
MainStatuses == {ALL, ACTIVE}

Main ==
    \/ \E base \in {<<>>, BASE_URL} : \E environ \in {<<>>, BASE_URL} :
          \E toc_resp \in MainTocResponses : \E resp \in MainResponses :
             \E status \in MainStatuses : \E s \in SearchStrings :
                \E json \in BOOLEAN :
                   SearchInstrumentDeploymentsMain(base, environ, toc_resp,
                                                   resp, status, s, json)
    \/ \E base \in {<<>>, BASE_URL} : \E environ \in {<<>>, BASE_URL} :
          \E resp \in MainResponses : \E status \in MainStatuses :
             \E s \in SearchStrings :
                SearchUframeInstrumentDeploymentsMain(base, environ, resp,
                                                      status, s)

\* the base url of the run is given by the option or by the environment
Resolvable == last_call.base # <<>> \/ last_call.environ # <<>>

\* C23: a run of search_uframe_instrument_deployments.py or of
\* search_instrument_deployments.py ends with exit code 1 when neither -b
\* nor UFRAME_BASE_URL gives a base url, and with 1 when the events request
\* fails; it ends with 0 only when the events were fetched.
C23_ExitCodes ==
    last_call.op = "main"
       => /\ ~Resolvable => last_call.exit = 1
          /\ (Resolvable /\ last_call.response \in EventsFailures)
                => last_call.exit = 1
          /\ last_call.exit = 0
                => Resolvable /\ last_call.response \notin EventsFailures

(***************************************************************************)
(* build_instrument_requests.py                                            *)
(*                                                                         *)
(* main from line 50 on, for the client uframe of lines 34-36 and the      *)
(* table of contents its constructor fetched.  Line 43 calls               *)
(* uframe.fetch_toc, and the class defines _fetch_toc only: a run of the   *)
(* script as it is written ends there with AttributeError and prints       *)
(* nothing.                                                                *)
(***************************************************************************)
\* lines 50-53
Instruments50(ref_des) ==
    IF ref_des # <<>> THEN search_instruments(ref_des) ELSE instruments

\* lines 62-75: the arguments of the call for one instrument; -u is not
\* given, user is None
Args62(instrument, telemetry, begin_ts) ==
    [Args(instrument, <<>>, telemetry, "", 0, begin_ts, None, TRUE)
        EXCEPT !.user = "None"]

NoRequests ==
    [stderr |-> <<>>, last |-> <<>>, called |-> {}, raised |-> "none",
     urls |-> <<>>, reached |-> FALSE]

\* lines 62-78: the state of the loop after one more call, which returned r
BuildStep(acc, r) ==
    [stderr |-> acc.stderr \o r.stderr, last |-> r.urls,
     called |-> acc.called \cup r.called, raised |-> r.raised,
     urls |-> acc.urls \o r.urls, reached |-> acc.reached \/ r.reached]

\* the loop of lines 60-78 over the instruments found; a call that raises
\* ends the run
RECURSIVE BuildLoop(_, _, _, _, _)
BuildLoop(found, k, telemetry, begin_ts, acc) ==
    IF k > Len(found) \/ acc.raised # "none" THEN acc
    ELSE BuildLoop(found, k + 1, telemetry, begin_ts,
                   BuildStep(acc, instrument_to_query(
                                     Args62(found[k], telemetry, begin_ts))))

\* lines 50-81: what the loop leaves and what lines 80-81 print
build_instrument_requests(ref_des, telemetry, begin_ts) ==
    BuildLoop(Instruments50(ref_des), 1, telemetry, begin_ts, NoRequests)

BuildInstrumentRequests(ref_des, telemetry, begin_ts) ==
    \E r \in {build_instrument_requests(ref_des, telemetry, begin_ts)} :
       /\ last_call' = [op |-> "build_instrument_requests",
                        raised |-> r.raised, begin_ts |-> begin_ts,
                        telemetry |-> telemetry, ref_des |-> ref_des,
                        stdout |-> IF r.raised = "none" THEN r.urls
                                   ELSE <<>>]
       /\ stderr' = IF Instruments50(ref_des) = <<>>
                    THEN <<"No instruments found for reference designator">>
                    ELSE r.stderr
       /\ toc' = TaggedToc(r.called)
       /\ url' = IF r.reached THEN InvUrl ELSE url
       /\ last_async_request_urls' = IF Instruments50(ref_des) = <<>>
                                     THEN last_async_request_urls
                                     ELSE r.last
       /\ _last_async_request_responses' =
             IF Instruments50(ref_des) = <<>>
             THEN _last_async_request_responses ELSE <<>>
       /\ UNCHANGED <<instruments, parameters, streams, arrays, src,
                      deployments, base_url, _active_deployment_events>>

Build ==
    \E ref_des \in {<<>>, FRAG_GI, RD_GI, RD_GI1, RD_LONG, RD_CE, FRAG_NONE} :
       \E telemetry \in {<<>>, T_REC} :
          \E begin_ts \in {None, Garbage, B_MID, B_NAIVE} :
             BuildInstrumentRequests(ref_des, telemetry, begin_ts)

C21_NoErrorEscapes ==
    /\ (last_call.op = "search_instrument_deployments"
           /\ last_call.response \in EventsFailures)
          => last_call.raised = "none" /\ last_call.result = <<>>
    /\ (last_call.op = "parse_asset_deployment_events"
           /\ last_call.response \in EventsFailures)
          => /\ get_instrument_deployment_events(last_call.response).raised = "none"
             /\ ~get_instrument_deployment_events(last_call.response).status
             /\ last_call.raised = "none"

\* a list in ascending order without a repeated element
StrictlySorted(seq) ==
    \A k \in 1..(Len(seq) - 1) : StrLess(seq[k], seq[k + 1])

\* the stream names and the parameter names a payload holds
PayloadStreams(body) ==
    IF body.type = "list"
    THEN UNION {{s.stream : s \in Range(rec.streams)} : rec \in Range(body.value)}
    ELSE UNION {{s.stream : s \in Range(rec.streams)} :
                   rec \in Range(body.value.instruments)}

PayloadParameters(body) ==
    IF body.type = "list"
    THEN UNION {{q.particleKey : q \in Range(rec.instrument_parameters)} :
                   rec \in Range(body.value)}
    ELSE {q.particle_key : q \in Range(body.value.parameter_definitions)}

\* the payload the last fetch was answered with
Fetched == (CHOOSE resp \in Responses : resp.id = last_call.response).body

\* C28: after a successful fetch of a list or of a dictionary the streams
\* list is sorted and holds each stream name of the payload exactly once,
\* and the parameters list is sorted and holds each parameter name exactly
\* once.
C28_DerivedListsUnique ==
    (last_call.op = "_fetch_toc" /\ last_call.outcome = "ok")
       => /\ StrictlySorted(streams)
          /\ Range(streams) = PayloadStreams(Fetched)
          /\ StrictlySorted(parameters)
          /\ Range(parameters) = PayloadParameters(Fetched)

LookupTargets == {FRAG_01, FRAG_GI, FRAG_LOWER, FRAG_T, S_FLORT, P_TEMP, RD_CE}

Search ==
    \/ \E t \in SearchTargets : SearchInstruments(t)
    \/ \E t \in LookupTargets : SearchParameters(t)
    \/ \E t \in LookupTargets : SearchStreams(t)
    \/ \E t \in LookupTargets : SearchArrays(t)
    \/ \E t \in LookupTargets : StreamToInstrument(t)
    \/ \E t \in LookupTargets : InstrumentToStreams(t)

Next == Fetch \/ Query \/ Search

Spec == Init /\ [][Next]_vars

InitQuery ==
    \E resp \in Responses : resp.id \in {"list1", "list2", "dict1"} /\ InitFetched(resp)

NextQuery == Query \/ QueryExplicit \/ QueryDelta

SpecQuery == InitQuery /\ [][NextQuery]_vars

SpecValidate == Init /\ [][Validate]_vars

SpecEvents == Init /\ [][Deployments]_vars

SpecClient == Init /\ [][Client]_vars

InitActive ==
    \E resp \in Responses : resp.id \in {"list1", "list2"} /\ InitFetched(resp)

SpecActive == InitActive /\ [][ActiveDeployments]_vars

InitAsync == InitFetched(Ok(TocList3))

SpecAsync == InitAsync /\ [][Async]_vars

SpecMain == Init /\ [][Main]_vars

InitBuild == \E p \in {TocList1, TocList3} : InitFetched(Ok(p))

SpecBuild == InitBuild /\ [][Build]_vars
====
